---- MODULE Spec2Model ----
(***************************************************************************)
(* AQI forecasting and health-risk scoring.                                *)
(*                                                                         *)
(*   Sequence forecaster : src/model.py, src/predict.py                    *)
(*   Risk classifier     : src/health_risk_classifier.py                   *)
(*   Risk model          : src/health_risk_model.py                        *)
(*   AQI conversion      : src/real_time_aqi.py                            *)
(*                                                                         *)
(* Several specifications share the module, each moving its own variables  *)
(* and leaving the others at their initial value:                          *)
(*   SpecForecast  the forecaster and its on-disk model cache              *)
(*   SpecRisk      the two risk predictors                                 *)
(*   SpecAdvice    the advice lookup                                       *)
(*   SpecApi       the callers of predict_risk (src/health_risk_api.py,    *)
(*                 src/forecast_health_analyzer.py)                        *)
(*   SpecCache     two processes on the artifact of one model_path         *)
(*   SpecSwap      the shared classifier retrained beside a prediction     *)
(*   SpecScaling   a value through the fitted scaler and back              *)
(*   SpecRuns      two runs of train-then-forecast on the same inputs      *)
(*   SpecPairs     the training pairs of create_sequences and their split  *)
(*   SpecExplain   explain_prediction on a prediction result               *)
(*   SpecFrame     one loaded classifier over a sequence of calls          *)
(*   SpecAqi       concentration to AQI (src/real_time_aqi.py)             *)
(***************************************************************************)
EXTENDS Integers, Sequences, FiniteSets, TLC

VARIABLES
    \* ---- forecaster: files of one model_path (one location)
    kerasFile,          \* artifact at model_path.replace('.h5', '.keras')
    h5File,             \* artifact at model_path itself (legacy .h5)
    \* ---- forecaster: the call in progress
    pc,                 \* "idle" | "loop" | "done" | "error"
    op,                 \* "none" | "forecast" | "train"
    err,                \* which exception ended the call ("" when none)
    df,                 \* the call's series of raw AQI values
    hours,              \* the requested horizon
    window_size,        \* the call's window_size argument
    model,              \* the model object the call uses
    scaler,             \* the MinMaxScaler the call scales and inverse-scales with
    last_seq,           \* the model input window
    predictions_scaled, \* predictions so far, scaled units
    result,             \* the returned predictions, raw AQI units
    cachedAtStart,      \* whether load_existing_model found an artifact
    trainedNow,         \* "no" | "ok" | "failed": train_model within this call
    \* ---- risk classifier (HealthRiskClassifier) and risk model (HealthRiskModel)
    clf,                \* HealthRiskClassifier instance fields
    clfFile,            \* the pickle written by HealthRiskClassifier.save_model
    hrm,                \* HealthRiskModel instance fields
    hrmDisk,            \* the three pickles under models/
    risk,               \* outcome of the last predict_risk / predict_health_risk
    \* ---- advice lookup
    advice,             \* outcome of the last generate_health_advice
    prevAdvice,         \* outcome of the call before it
    \* ---- callers of predict_risk (endpoints, analyzer, direct use)
    call,               \* the request in hand and what came of it
    \* ---- two processes sharing the artifact of one model_path
    artifact,           \* the .keras file and who is writing it
    proc,               \* per process: position and what it loaded
    \* ---- the shared HealthRiskClassifier under retraining
    shared,             \* which training run each field of the instance is from
    pickled,            \* which training run the pickle on disk is from
    trainer,            \* the thread that trains or loads: position, run
    reader,             \* the thread inside predict_risk: position, runs used
    \* ---- one value through a fitted MinMaxScaler and back
    sc_pc,              \* "idle" | "fitted" | "scaled" | "restored" | "error"
    sc_series,          \* the series the scaler is fitted on
    sc_fit,             \* the scaler fitted on it
    sc_raw,             \* the raw value
    sc_scaled,          \* transform of it
    sc_back,            \* inverse_transform of that
    \* ---- two runs of train-then-forecast on the same inputs
    first,              \* inputs and outcome of the first run
    second,             \* inputs and outcome of the second run
    \* ---- create_sequences and the split of train_model, step by step
    cs_pc,              \* "idle" | "loop" | "built" | "split" | "error"
    cs_data,            \* the scaled series handed to create_sequences
    cs_W,               \* window_size
    cs_i,               \* the loop variable i
    cs_pairs,           \* the pairs (X[i], y[i]) appended so far
    cs_reads,           \* the indices of data read so far (0-based)
    cs_train,           \* X_train, y_train
    cs_val,             \* X_val, y_val
    \* ---- explain_prediction on the result of a prediction
    expl,               \* the prediction explained and what explain_prediction returned
    \* ---- a loaded classifier and a caller's series across a sequence of calls
    fr_clf,             \* the fields of the classifier instance
    fr_loaded,          \* the fields as load_model left them
    fr_seen,            \* the first predict_risk call and its result
    fr_out,             \* the latest call and its result
    \* ---- two conversions of a pollutant concentration to an AQI value
    aq_kind,            \* the pollutant converted
    aq_lo,              \* the first concentration and its AQI
    aq_hi               \* the second concentration and its AQI

forecastVars ==
    <<kerasFile, h5File, pc, op, err, df, hours, window_size, model, scaler,
      last_seq, predictions_scaled, result, cachedAtStart, trainedNow>>

riskVars == <<clf, clfFile, hrm, hrmDisk, risk>>

adviceVars == <<advice, prevAdvice>>

apiVars == <<call>>

cacheVars == <<artifact, proc>>

(* Variables of the specifications that follow the first three.            *)
swapVars == <<shared, pickled, trainer, reader>>

scalingVars == <<sc_pc, sc_series, sc_fit, sc_raw, sc_scaled, sc_back>>

runVars == <<first, second>>

pairVars == <<cs_pc, cs_data, cs_W, cs_i, cs_pairs, cs_reads, cs_train, cs_val>>

explainVars == <<expl>>

frameVars == <<fr_clf, fr_loaded, fr_seen, fr_out>>

aqiVars == <<aq_kind, aq_lo, aq_hi>>

extVars ==
    <<apiVars, cacheVars, swapVars, scalingVars, runVars, pairVars, explainVars, frameVars,
      aqiVars>>

(* What the actions of each of these specifications leave alone.           *)
notAqiVars ==
    <<forecastVars, riskVars, adviceVars, apiVars, cacheVars, swapVars, scalingVars, runVars, pairVars, explainVars, frameVars>>

notFrameVars ==
    <<forecastVars, riskVars, adviceVars, apiVars, cacheVars, swapVars, scalingVars, runVars, pairVars, explainVars,
      aqiVars>>

notExplainVars ==
    <<forecastVars, riskVars, adviceVars, apiVars, cacheVars, swapVars, scalingVars, runVars, pairVars,
      frameVars,
      aqiVars>>

notPairVars ==
    <<forecastVars, riskVars, adviceVars, apiVars, cacheVars, swapVars,
      scalingVars, runVars,
      explainVars,
      frameVars,
      aqiVars>>

notApiVars ==
    <<forecastVars, riskVars, adviceVars, cacheVars, swapVars, scalingVars,
      runVars,
      pairVars,
      explainVars,
      frameVars,
      aqiVars>>

notCacheVars ==
    <<forecastVars, riskVars, adviceVars, apiVars, swapVars, scalingVars,
      runVars,
      pairVars,
      explainVars,
      frameVars,
      aqiVars>>

notSwapVars ==
    <<forecastVars, riskVars, adviceVars, apiVars, cacheVars, scalingVars,
      runVars,
      pairVars,
      explainVars,
      frameVars,
      aqiVars>>

notRunVars ==
    <<forecastVars, riskVars, adviceVars, apiVars, cacheVars, swapVars,
      scalingVars,
      pairVars,
      explainVars,
      frameVars,
      aqiVars>>

notScalingVars ==
    <<forecastVars, riskVars, adviceVars, apiVars, cacheVars, swapVars,
      runVars,
      pairVars,
      explainVars,
      frameVars,
      aqiVars>>

vars == <<forecastVars, riskVars, adviceVars, extVars>>

---------------------------------------------------------------------------
(* Bounds of the model.                                                    *)

MaxLen == 4

MaxWindow == 2

MaxHours == 2

ProbTotal == 4

AqiValues == {10, 30}

Windows == 1..MaxWindow

Horizons == 0..MaxHours

RECURSIVE SeqsUpTo(_)
SeqsUpTo(n) ==
    IF n = 0 THEN {<<>>}
    ELSE LET shorter == SeqsUpTo(n - 1)
         IN  shorter \cup {Append(s, v) : s \in {t \in shorter : Len(t) = n - 1},
                                           v \in AqiValues}

SeriesSet == SeqsUpTo(MaxLen)

---------------------------------------------------------------------------
(* Exact arithmetic for scaled values: a rational <<n, d>> in lowest terms. *)

RECURSIVE GCD(_, _)
GCD(a, b) == IF b = 0 THEN a ELSE GCD(b, a % b)

Rat(n, d) ==
    LET g == GCD(n, d)
    IN  IF n = 0 THEN [n |-> 0, d |-> 1] ELSE [n |-> n \div g, d |-> d \div g]

SeqMin(s) == CHOOSE v \in {s[i] : i \in DOMAIN s} : \A j \in DOMAIN s : v <= s[j]

SeqMax(s) == CHOOSE v \in {s[i] : i \in DOMAIN s} : \A j \in DOMAIN s : v >= s[j]

NoScaler == [mn |-> 0, mx |-> 0, fitted |-> FALSE]

(* MinMaxScaler.fit: data_min_, data_max_ of the column.                   *)
ScalerFit(values) == [mn |-> SeqMin(values), mx |-> SeqMax(values), fitted |-> TRUE]

(* MinMaxScaler's data_range_, a zero range replaced by 1.                 *)
ScalerRange(sc) == IF sc.mx = sc.mn THEN 1 ELSE sc.mx - sc.mn

(* MinMaxScaler.transform of one raw value.                                *)
Scale(sc, v) == Rat(v - sc.mn, ScalerRange(sc))

(* An inverse that leaves the offset out.                                  *)
InverseScaleMutant(sc, s) == Rat(s.n * ScalerRange(sc), s.d)

(* MinMaxScaler.inverse_transform of one scaled value.                     *)
InverseScale(sc, s) == Rat(s.n * ScalerRange(sc) + sc.mn * s.d, s.d)

ScaleAll(sc, values) == [i \in DOMAIN values |-> Scale(sc, values[i])]

---------------------------------------------------------------------------
(* src/model.py                                                            *)

NoModel == [W |-> 0, weights |-> "none", fitMin |-> 0, fitMax |-> 0, src |-> "none"]

(* The outcomes of fitting the network: the weights depend on the          *)
(* unseeded initialisation and shuffling, the prediction on the weights.   *)
WeightKinds == {"persist", "half"}

LegacyModels ==
    {[W |-> w, weights |-> "persist", fitMin |-> 0, fitMax |-> 0, src |-> "legacy"] :
        w \in Windows}

create_sequences(data, W) ==
    LET n == IF Len(data) > W THEN Len(data) - W ELSE 0
    IN  [i \in 1..n |-> [X |-> SubSeq(data, i, i + W - 1), y |-> data[i + W]]]

(* A split that keeps the first 15 percent.                                *)
SplitIdxMutant(n) == (15 * n) \div 100

(* split_idx = int(0.85 * len(X))                                          *)
SplitIdx(n) == (85 * n) \div 100

(* model.fit raises on an empty training segment.                          *)
FitRaisesMutant(X_train) == FALSE

FitRaises(X_train) == Len(X_train) = 0

(* train_model: scaler fit, pairs, chronological split, fit, save.         *)
(* Returns the outcome; the caller writes the model to the .keras path.    *)
train_model(series, W, weights) ==
    IF Len(series) = 0
    THEN [ok |-> FALSE, err |-> "EmptySeries", model |-> NoModel, scaler |-> NoScaler]
    ELSE LET sc      == ScalerFit(series)
             scaled  == ScaleAll(sc, series)
             pairs   == create_sequences(scaled, W)
             X_train == SubSeq(pairs, 1, SplitIdx(Len(pairs)))
         IN  IF FitRaises(X_train)
             THEN [ok |-> FALSE, err |-> "EmptyTrainingSet",
                   model |-> NoModel, scaler |-> NoScaler]
             ELSE [ok |-> TRUE, err |-> "",
                   model |-> [W |-> W, weights |-> weights, fitMin |-> sc.mn,
                              fitMax |-> sc.mx, src |-> "train"],
                   scaler |-> sc]

load_existing_model_mutant(kf, hf) == kf

load_existing_model(kf, hf) ==
    IF kf # NoModel THEN kf
    ELSE IF hf # NoModel THEN hf
    ELSE NoModel

(* model.predict on one window: the fitted network is a function of its    *)
(* weights and its input.                                                  *)
Predict(m, window) ==
    IF m.weights = "persist" THEN window[Len(window)] ELSE Rat(1, 2)

---------------------------------------------------------------------------
(* src/predict.py                                                          *)

(* Lines 24-29: the last window_size scaled values, left-padded with the   *)
(* first scaled value when the series is shorter.                          *)
InitialWindow(scaled, W) ==
    IF Len(scaled) < W
    THEN [i \in 1..(W - Len(scaled)) |-> scaled[1]] \o scaled
    ELSE SubSeq(scaled, Len(scaled) - W + 1, Len(scaled))

(* Line 38: last_seq = np.append(last_seq[1:], [[pred]], axis=0)           *)
SlideWindowMutant(window, pred) == Append(window, pred)

SlideWindow(window, pred) == Append(Tail(window), pred)

(* Line 34: for _ in range(hours)                                          *)
LoopContinuesMutant(k, h) == k <= h

LoopContinues(k, h) == k < h

ForecastLocalsCleared ==
    /\ df = <<>>
    /\ hours = 0
    /\ window_size = 0
    /\ model = NoModel
    /\ scaler = NoScaler
    /\ last_seq = <<>>
    /\ predictions_scaled = <<>>
    /\ result = <<>>
    /\ cachedAtStart = FALSE
    /\ trainedNow = "no"
    /\ err = ""

ForecastInit ==
    /\ kerasFile = NoModel
    /\ h5File \in {NoModel} \cup LegacyModels
    /\ pc = "idle"
    /\ op = "none"
    /\ ForecastLocalsCleared

(* A direct call of train_model (src/main_realtime.py:47, :159).           *)
TrainCall ==
    /\ pc = "idle"
    /\ \E series \in SeriesSet, W \in Windows, w \in WeightKinds :
         LET out == train_model(series, W, w)
         IN  /\ df' = series
             /\ window_size' = W
             /\ op' = "train"
             /\ kerasFile' = IF out.ok THEN out.model ELSE kerasFile
             /\ model' = out.model
             /\ scaler' = out.scaler
             /\ trainedNow' = IF out.ok THEN "ok" ELSE "failed"
             /\ err' = out.err
             /\ pc' = IF out.ok THEN "done" ELSE "error"
    /\ cachedAtStart' = (kerasFile # NoModel \/ h5File # NoModel)
    /\ UNCHANGED <<h5File, hours, last_seq, predictions_scaled, result>>
    /\ UNCHANGED <<riskVars, adviceVars, extVars>>

(* forecast_next_hours, lines 8-29: load, scaler fit, train on a miss,     *)
(* first window.                                                           *)
ForecastCall ==
    /\ pc = "idle"
    /\ \E series \in SeriesSet, h \in Horizons, W \in Windows, w \in WeightKinds :
         LET loaded == load_existing_model(kerasFile, h5File)
             out    == train_model(series, W, w)
             sc     == ScalerFit(series)
             scaled == ScaleAll(sc, series)
         IN  /\ df' = series
             /\ hours' = h
             /\ window_size' = W
             /\ op' = "forecast"
             /\ cachedAtStart' = (kerasFile # NoModel \/ h5File # NoModel)
             /\ IF Len(series) = 0
                THEN \* line 13: fit_transform of an empty column raises
                     /\ pc' = "error"
                     /\ err' = "EmptySeries"
                     /\ model' = loaded
                     /\ trainedNow' = "no"
                     /\ UNCHANGED <<kerasFile, scaler, last_seq>>
                ELSE IF loaded = NoModel /\ ~out.ok
                THEN \* line 16: train_model raises
                     /\ pc' = "error"
                     /\ err' = out.err
                     /\ model' = NoModel
                     /\ trainedNow' = "failed"
                     /\ scaler' = sc
                     /\ UNCHANGED <<kerasFile, last_seq>>
                ELSE /\ pc' = "loop"
                     /\ err' = ""
                     /\ model' = IF loaded = NoModel THEN out.model ELSE loaded
                     /\ scaler' = IF loaded = NoModel THEN out.scaler ELSE sc
                     /\ trainedNow' = IF loaded = NoModel THEN "ok" ELSE "no"
                     /\ kerasFile' = IF loaded = NoModel THEN out.model ELSE kerasFile
                     /\ last_seq' = InitialWindow(scaled, W)
    /\ UNCHANGED <<h5File, predictions_scaled, result>>
    /\ UNCHANGED <<riskVars, adviceVars, extVars>>

(* One iteration of the loop of lines 34-38.                               *)
ForecastStep ==
    /\ pc = "loop"
    /\ LoopContinues(Len(predictions_scaled), hours)
    /\ IF model.W # window_size
       THEN \* line 35: the network's input shape is (None, W, 1)
            /\ pc' = "error"
            /\ err' = "InputShape"
            /\ UNCHANGED <<last_seq, predictions_scaled>>
       ELSE LET pred == Predict(model, last_seq)
            IN  /\ predictions_scaled' = Append(predictions_scaled, pred)
                /\ last_seq' = SlideWindow(last_seq, pred)
                /\ UNCHANGED <<pc, err>>
    /\ UNCHANGED <<kerasFile, h5File, op, df, hours, window_size, model, scaler,
                   result, cachedAtStart, trainedNow>>
    /\ UNCHANGED <<riskVars, adviceVars, extVars>>

(* Lines 41-45: inverse transform and return.                              *)
ForecastReturn ==
    /\ pc = "loop"
    /\ ~LoopContinues(Len(predictions_scaled), hours)
    /\ IF Len(predictions_scaled) = 0
       THEN \* inverse_transform of an empty column raises
            /\ pc' = "error"
            /\ err' = "EmptyPredictions"
            /\ UNCHANGED result
       ELSE /\ pc' = "done"
            /\ result' = [i \in DOMAIN predictions_scaled |->
                            InverseScale(scaler, predictions_scaled[i])]
            /\ UNCHANGED err
    /\ UNCHANGED <<kerasFile, h5File, op, df, hours, window_size, model, scaler,
                   last_seq, predictions_scaled, cachedAtStart, trainedNow>>
    /\ UNCHANGED <<riskVars, adviceVars, extVars>>

(* The caller goes on after the call returned or raised.                   *)
ForecastReset ==
    /\ pc \in {"done", "error"}
    /\ pc' = "idle"
    /\ op' = "none"
    /\ df' = <<>>
    /\ hours' = 0
    /\ window_size' = 0
    /\ model' = NoModel
    /\ scaler' = NoScaler
    /\ last_seq' = <<>>
    /\ predictions_scaled' = <<>>
    /\ result' = <<>>
    /\ cachedAtStart' = FALSE
    /\ trainedNow' = "no"
    /\ err' = ""
    /\ UNCHANGED <<kerasFile, h5File>>
    /\ UNCHANGED <<riskVars, adviceVars, extVars>>

ForecastNext ==
    \/ TrainCall
    \/ ForecastCall
    \/ ForecastStep
    \/ ForecastReturn
    \/ ForecastReset

---------------------------------------------------------------------------
(* src/health_risk_classifier.py, src/health_risk_model.py                 *)

(* self.risk_categories, in the order of HealthRiskClassifier.__init__.    *)
RiskCategories == <<"Low", "Moderate", "High", "Hazardous">>

CategorySet == {RiskCategories[i] : i \in DOMAIN RiskCategories}

(* The keys of self.personas.                                              *)
PersonaSet == {"children_elderly", "outdoor_workers", "general_public"}

PersonaInputs == PersonaSet \cup {"unknown"}

(* Sorted order of the labels: what np.unique / LabelEncoder produce, and  *)
(* so the order of a fitted forest's classes_ and predict_proba columns.   *)
SortedLabels == <<"Hazardous", "High", "Low", "Moderate">>

Classes(labels) ==
    LET keep[i \in 0..Len(SortedLabels)] ==
            IF i = 0 THEN <<>>
            ELSE IF SortedLabels[i] \in labels
                 THEN Append(keep[i - 1], SortedLabels[i])
                 ELSE keep[i - 1]
    IN  keep[Len(SortedLabels)]

(* The label sets of the training data the model draws from.               *)
TrainingLabelSets ==
    {CategorySet, CategorySet \ {"Hazardous"}, {"Low", "Moderate"}}

RECURSIVE SeqSum(_)
SeqSum(p) == IF Len(p) = 0 THEN 0 ELSE p[1] + SeqSum(Tail(p))

(* predict_proba of one sample: one share per class, summing to the whole. *)
Distributions(n) == {p \in [1..n -> 0..ProbTotal] : SeqSum(p) = ProbTotal}

(* np.argmax: the first index holding the maximum.                         *)
ArgMax(p) ==
    CHOOSE i \in DOMAIN p :
        /\ \A j \in DOMAIN p : p[j] <= p[i]
        /\ \A j \in DOMAIN p : j < i => p[j] < p[i]

Min(a, b) == IF a < b THEN a ELSE b

(* dict(zip(keys, values)): pairs up to the shorter of the two.            *)
ZipDict(keys, values) ==
    LET n == Min(Len(keys), Len(values))
    IN  [k \in {keys[i] : i \in 1..n} |->
            values[CHOOSE i \in 1..n : keys[i] = k]]

(* Lines 207-209 of health_risk_classifier.py.                             *)
PersonaEncoding(persona_type) ==
    <<IF persona_type = "children_elderly" THEN 1 ELSE 0,
      IF persona_type = "outdoor_workers" THEN 1 ELSE 0,
      IF persona_type = "general_public" THEN 1 ELSE 0>>

NoRisk ==
    [status |-> "none", api |-> "none", risk_category |-> "", probs |-> <<>>,
     proba |-> <<>>, classes |-> <<>>, persona_encoding |-> <<>>]

RiskError(api) == [NoRisk EXCEPT !.status = "error", !.api = api]

(* HealthRiskClassifier.predict_risk, given the columns the forest returns. *)
predict_risk(c, persona_type, proba) ==
    IF ~c.scaler_fitted \/ c.model = <<>> \/ c.explainer = <<>>
    THEN RiskError("classifier")
    ELSE [status |-> "ok", api |-> "classifier",
          risk_category |-> c.model[ArgMax(proba)],
          probs |-> ZipDict(RiskCategories, proba),
          proba |-> proba,
          classes |-> c.model,
          persona_encoding |-> PersonaEncoding(persona_type)]

(* HealthRiskModel.predict_health_risk after the model is in memory.       *)
predict_health_risk(m, complete, proba) ==
    IF ~complete \/ ~m.scaler \/ m.model = 0 \/ Len(m.label_encoder) < m.model
    THEN RiskError("model")
    ELSE [status |-> "ok", api |-> "model",
          risk_category |-> m.label_encoder[ArgMax(proba)],
          probs |-> [k \in {m.label_encoder[i] : i \in DOMAIN proba} |->
                        proba[CHOOSE i \in DOMAIN proba : m.label_encoder[i] = k]],
          proba |-> proba,
          classes |-> m.label_encoder,
          persona_encoding |-> <<>>]

NoClf == [model |-> <<>>, scaler_fitted |-> FALSE, explainer |-> <<>>]

NoClfFile == [present |-> FALSE, model |-> <<>>, scaler_fitted |-> FALSE]

NoHrm == [model |-> 0, label_encoder |-> <<>>, scaler |-> FALSE]

RiskInit ==
    /\ clf = NoClf
    /\ clfFile = NoClfFile
    /\ hrm = NoHrm
    /\ hrmDisk = NoHrm
    /\ risk = NoRisk

(* HealthRiskClassifier.train_model(df): fits self.scaler and self.model.  *)
ClfTrain ==
    /\ risk.status = "none"
    /\ \E labels \in TrainingLabelSets :
         clf' = [clf EXCEPT !.model = Classes(labels), !.scaler_fitted = TRUE]
    /\ UNCHANGED <<clfFile, hrm, hrmDisk, risk>>
    /\ UNCHANGED <<forecastVars, adviceVars, extVars>>

(* HealthRiskClassifier.setup_explainability.                              *)
ClfSetupExplainability ==
    /\ risk.status = "none"
    /\ clf.model # <<>>
    /\ clf' = [clf EXCEPT !.explainer = clf.model]
    /\ UNCHANGED <<clfFile, hrm, hrmDisk, risk>>
    /\ UNCHANGED <<forecastVars, adviceVars, extVars>>

(* HealthRiskClassifier.save_model.                                        *)
ClfSave ==
    /\ risk.status = "none"
    /\ clfFile' = [present |-> TRUE, model |-> clf.model,
                   scaler_fitted |-> clf.scaler_fitted]
    /\ UNCHANGED <<clf, hrm, hrmDisk, risk>>
    /\ UNCHANGED <<forecastVars, adviceVars, extVars>>

(* HealthRiskClassifier.load_model: fields from the pickle, then the       *)
(* explainer of the loaded model.                                          *)
ClfLoad ==
    /\ risk.status = "none"
    /\ clfFile.present
    /\ clf' = [model |-> clfFile.model, scaler_fitted |-> clfFile.scaler_fitted,
               explainer |-> IF clfFile.model = <<>> THEN clf.explainer
                             ELSE clfFile.model]
    /\ UNCHANGED <<clfFile, hrm, hrmDisk, risk>>
    /\ UNCHANGED <<forecastVars, adviceVars, extVars>>

(* A call of HealthRiskClassifier.predict_risk.                            *)
ClfPredict ==
    /\ risk.status = "none"
    /\ \E persona_type \in PersonaInputs :
         IF ~clf.scaler_fitted \/ clf.model = <<>> \/ clf.explainer = <<>>
         THEN risk' = predict_risk(clf, persona_type, <<>>)
         ELSE \E proba \in Distributions(Len(clf.model)) :
                 risk' = predict_risk(clf, persona_type, proba)
    /\ UNCHANGED <<clf, clfFile, hrm, hrmDisk>>
    /\ UNCHANGED <<forecastVars, adviceVars, extVars>>

(* HealthRiskModel.train_health_model: encoder, scaler, forest, save_model. *)
HrmTrain ==
    /\ risk.status = "none"
    /\ \E labels \in TrainingLabelSets :
         LET trained == [model |-> Len(Classes(labels)),
                         label_encoder |-> Classes(labels), scaler |-> TRUE]
         IN  /\ hrm' = trained
             /\ hrmDisk' = trained
    /\ UNCHANGED <<clf, clfFile, risk>>
    /\ UNCHANGED <<forecastVars, adviceVars, extVars>>

(* A first training run whose process ends inside save_model, after the    *)
(* model file, or the model and encoder files, were written.               *)
HrmSaveInterrupted ==
    /\ risk.status = "none"
    /\ hrmDisk = NoHrm
    /\ \E labels \in TrainingLabelSets, encoder_written \in BOOLEAN :
         hrmDisk' = [model |-> Len(Classes(labels)),
                     label_encoder |-> IF encoder_written THEN Classes(labels)
                                       ELSE <<>>,
                     scaler |-> FALSE]
    /\ clf' = NoClf
    /\ hrm' = NoHrm
    /\ UNCHANGED <<clfFile, risk>>
    /\ UNCHANGED <<forecastVars, adviceVars, extVars>>

(* HealthRiskModel.load_model: the three pickles in turn; the first one    *)
(* missing raises FileNotFoundError.                                       *)
HrmLoaded(m, disk) ==
    IF disk.model = 0 THEN m
    ELSE IF disk.label_encoder = <<>> THEN [m EXCEPT !.model = disk.model]
    ELSE IF ~disk.scaler
         THEN [m EXCEPT !.model = disk.model, !.label_encoder = disk.label_encoder]
    ELSE disk

HrmLoadRaises(disk) == disk.model = 0 \/ disk.label_encoder = <<>> \/ ~disk.scaler

(* A call of HealthRiskModel.predict_health_risk: load on an empty         *)
(* instance, feature check, prediction.                                    *)
HrmPredict ==
    /\ risk.status = "none"
    /\ \E complete \in BOOLEAN :
         LET m == IF hrm.model = 0 THEN HrmLoaded(hrm, hrmDisk) ELSE hrm
         IN  /\ hrm' = m
             /\ IF (hrm.model = 0 /\ HrmLoadRaises(hrmDisk)) \/ m.model = 0
                THEN risk' = RiskError("model")
                ELSE \E proba \in Distributions(m.model) :
                        risk' = predict_health_risk(m, complete, proba)
    /\ UNCHANGED <<clf, clfFile, hrmDisk>>
    /\ UNCHANGED <<forecastVars, adviceVars, extVars>>

(* A new process starts: instances are rebuilt, the files stay.            *)
Restart ==
    /\ risk.status = "none"
    /\ clf # NoClf \/ hrm # NoHrm
    /\ clf' = NoClf
    /\ hrm' = NoHrm
    /\ UNCHANGED <<clfFile, hrmDisk, risk>>
    /\ UNCHANGED <<forecastVars, adviceVars, extVars>>

(* The caller takes the result or the exception.                           *)
RiskReset ==
    /\ risk.status # "none"
    /\ risk' = NoRisk
    /\ UNCHANGED <<clf, clfFile, hrm, hrmDisk>>
    /\ UNCHANGED <<forecastVars, adviceVars, extVars>>

RiskNext ==
    \/ ClfTrain
    \/ ClfSetupExplainability
    \/ ClfSave
    \/ ClfLoad
    \/ ClfPredict
    \/ HrmTrain
    \/ HrmSaveInterrupted
    \/ HrmPredict
    \/ Restart
    \/ RiskReset

---------------------------------------------------------------------------
(* HealthRiskClassifier.generate_health_advice                             *)

advice_templates ==
    [Low |->
        [children_elderly |-> "Air quality is safe for outdoor activities. Children and elderly can enjoy normal outdoor play and exercise.",
         outdoor_workers |-> "Working conditions are safe. No special precautions needed for outdoor work.",
         general_public |-> "Air quality is good. Enjoy your normal outdoor activities!"],
     Moderate |->
        [children_elderly |-> "Children and elderly may consider reducing prolonged outdoor exertion. Take breaks during outdoor activities.",
         outdoor_workers |-> "Monitor your health during long outdoor shifts. Consider more frequent breaks in shaded areas.",
         general_public |-> "Unusually sensitive people should consider reducing prolonged outdoor exertion."],
     High |->
        [children_elderly |-> "Children and elderly should avoid prolonged outdoor exertion. Keep outdoor activities short and take frequent breaks.",
         outdoor_workers |-> "Reduce prolonged outdoor work. Use protective masks if available and monitor for health symptoms.",
         general_public |-> "Avoid prolonged outdoor exertion. Sensitive groups should stay indoors as much as possible."],
     Hazardous |->
        [children_elderly |-> "Children and elderly should remain indoors. Keep all outdoor activities to an absolute minimum.",
         outdoor_workers |-> "Avoid outdoor work if possible. If unavoidable, use proper respiratory protection and limit exposure time.",
         general_public |-> "Avoid all outdoor activities. Stay indoors and keep windows closed. Use air purifiers if available."]]

NoAdvice == [status |-> "none", category |-> "", persona |-> "", text |-> ""]

(* A table that lost one entry.                                            *)
generate_health_advice_mutant(risk_category, persona_type) ==
    IF risk_category \notin DOMAIN advice_templates
       \/ persona_type \notin DOMAIN advice_templates[risk_category]
       \/ (risk_category = "Hazardous" /\ persona_type = "general_public")
    THEN [status |-> "error", category |-> risk_category,
          persona |-> persona_type, text |-> ""]
    ELSE [status |-> "ok", category |-> risk_category, persona |-> persona_type,
          text |-> advice_templates[risk_category][persona_type]]

(* advice_templates[risk_category][persona_type]; a missing key raises.    *)
generate_health_advice(risk_category, persona_type) ==
    IF risk_category \notin DOMAIN advice_templates
       \/ persona_type \notin DOMAIN advice_templates[risk_category]
    THEN [status |-> "error", category |-> risk_category,
          persona |-> persona_type, text |-> ""]
    ELSE [status |-> "ok", category |-> risk_category, persona |-> persona_type,
          text |-> advice_templates[risk_category][persona_type]]

AdviceInit ==
    /\ advice = NoAdvice
    /\ prevAdvice = NoAdvice

GenerateAdvice ==
    /\ \E risk_category \in CategorySet, persona_type \in PersonaInputs :
         advice' = generate_health_advice(risk_category, persona_type)
    /\ prevAdvice' = advice
    /\ UNCHANGED <<forecastVars, riskVars, extVars>>

AdviceNext == GenerateAdvice

---------------------------------------------------------------------------
(* Callers of predict_risk: src/health_risk_api.py,                        *)
(* src/forecast_health_analyzer.py, and direct use of the classifier.      *)

MaxBatch == 2

(* The keys read by predict_risk, in the order of its feature list.        *)
FeatureKeys ==
    <<"aqi", "pm25", "pm10", "temperature", "humidity", "wind_speed",
      "pressure", "visibility">>

FeatureKeySet == {FeatureKeys[i] : i \in DOMAIN FeatureKeys}

(* The second argument of each forecast_data.get(key, default).            *)
FeatureDefaults ==
    [aqi |-> 100, pm25 |-> 50, pm10 |-> 75, temperature |-> 25,
     humidity |-> 60, wind_speed |-> 5, pressure |-> 1013, visibility |-> 8]

(* Readings a caller supplies; none equals the default of its key.         *)
Readings ==
    [aqi |-> 180, pm25 |-> 90, pm10 |-> 140, temperature |-> 31,
     humidity |-> 40, wind_speed |-> 2, pressure |-> 1002, visibility |-> 4]

(* dict.get(key, default).                                                 *)
Get(d, k, default) == IF k \in DOMAIN d THEN d[k] ELSE default

(* Forecast dictionaries: complete, or lacking one key, or empty.          *)
ForecastDicts ==
    {[k \in FeatureKeySet \ missing |-> Readings[k]] :
        missing \in {{}} \cup {{k} : k \in FeatureKeySet} \cup {FeatureKeySet}}

ExposureInputs == {-1, 0, 24, 25}

(* A feature list with the exposure after the persona indicators.         *)
FeatureVectorMutant(forecast_data, persona_type, exposure_duration) ==
    [i \in 1..Len(FeatureKeys) |->
        Get(forecast_data, FeatureKeys[i], FeatureDefaults[FeatureKeys[i]])]
    \o PersonaEncoding(persona_type)
    \o <<exposure_duration>>

(* The list `features` of predict_risk.                                    *)
FeatureVector(forecast_data, persona_type, exposure_duration) ==
    [i \in 1..Len(FeatureKeys) |->
        Get(forecast_data, FeatureKeys[i], FeatureDefaults[FeatureKeys[i]])]
    \o <<exposure_duration>>
    \o PersonaEncoding(persona_type)

(* generate_training_data: the names of the feature columns.              *)
feature_cols ==
    <<"aqi", "pm25", "pm10", "temperature", "humidity", "wind_speed",
      "pressure", "visibility", "exposure_duration",
      "persona_children", "persona_workers", "persona_general">>

(* The columns of the training frame.                                      *)
TrainingFrameColumns == feature_cols \o <<"risk_label", "persona_type">>

(* generate_training_data: persona_encoding of a sample.                   *)
TrainingPersonaEncoding(persona_type) ==
    <<IF persona_type = "children_elderly" THEN 1 ELSE 0,
      IF persona_type = "outdoor_workers" THEN 1 ELSE 0,
      IF persona_type = "general_public" THEN 1 ELSE 0>>

(* generate_training_data: the feature part of one row of the frame.       *)
TrainingRow(readings, exposure_duration, persona_type) ==
    <<readings.aqi, readings.pm25, readings.pm10, readings.temperature,
      readings.humidity, readings.wind_speed, readings.pressure,
      readings.visibility, exposure_duration>>
    \o TrainingPersonaEncoding(persona_type)

(* train_model: the columns X is made of, which the scaler and the forest  *)
(* are fitted on and which become self.feature_names.                      *)
TrainFeatureColumns ==
    SelectSeq(TrainingFrameColumns,
              LAMBDA c : c \notin {"risk_label", "persona_type"})

(* The forecast_data dictionary an endpoint builds from a JSON object.     *)
EndpointForecastData(data) ==
    [k \in FeatureKeySet |-> Get(data, k, FeatureDefaults[k])]

(* predict_risk as its callers see it: the returned dictionary with its    *)
(* 'features' entry, or the exception.                                     *)
PredictRiskResult(c, forecast_data, persona_type, exposure_duration, proba) ==
    LET r == predict_risk(c, persona_type, proba)
    IN  [status |-> r.status,
         risk_category |-> r.risk_category,
         probs |-> r.probs,
         features |-> IF r.status = "ok"
                      THEN FeatureVector(forecast_data, persona_type,
                                         exposure_duration)
                      ELSE <<>>,
         given |-> forecast_data,
         persona_type |-> persona_type,
         exposure_duration |-> exposure_duration]

(* Columns of predict_proba used by the callers' model: all weight on one  *)
(* class.                                                                  *)
ApiProbas(n) == {p \in Distributions(n) : \E i \in 1..n : p[i] = ProbTotal}

(* ForecastHealthRiskAnalyzer.persona_mapping.                             *)
persona_mapping ==
    [code \in 0..3 |->
        IF code = 0 THEN "general_public"
        ELSE IF code = 3 THEN "outdoor_workers"
        ELSE "children_elderly"]

PersonaCodes == 0..4

NoCall ==
    [path |-> "none", status |-> "none", persona_in |-> "", persona_code |-> -1,
     lacking |-> {}, produced |-> <<>>]

(* The classifier after load_model of a pickle written by save_model.      *)
LoadedClassifier(labels) ==
    [model |-> Classes(labels), scaler_fitted |-> TRUE,
     explainer |-> Classes(labels)]

ApiCallInit == call = NoCall

(* A process that has run                                                  *)
(*   classifier.load_model('aeroguard_health_risk_model.pkl')              *)
(* at import.                                                              *)
ApiRiskInit ==
    /\ \E labels \in TrainingLabelSets :
         /\ clf = LoadedClassifier(labels)
         /\ clfFile = [present |-> TRUE, model |-> Classes(labels),
                       scaler_fitted |-> TRUE]
    /\ hrm = NoHrm
    /\ hrmDisk = NoHrm
    /\ risk = NoRisk

MissingSets == {{}} \cup {{k} : k \in FeatureKeySet} \cup {FeatureKeySet}

(* A JSON object: forecast readings, with or without the optional keys.    *)
JsonObject(missing, ps, es) ==
    [k \in (FeatureKeySet \ missing) \cup {"persona" : x \in ps}
                                     \cup {"exposure_duration" : x \in es} |->
        IF k = "persona" THEN CHOOSE x \in ps : TRUE
        ELSE IF k = "exposure_duration" THEN CHOOSE x \in es : TRUE
        ELSE Readings[k]]

(* Bodies of /health-risk and /risk-insights.                              *)
JsonBodies ==
    {JsonObject(missing, ps, es) :
        missing \in MissingSets,
        ps \in {{}} \cup {{x} : x \in PersonaInputs},
        es \in {{}} \cup {{x} : x \in ExposureInputs}}

(* Entries of the 'forecasts' list of /batch-health-risk.                  *)
BatchForecasts ==
    {JsonObject({}, {}, {}), JsonObject({"aqi"}, {}, {}),
     JsonObject({}, {}, {25})}

(* The persona a request named, "absent" when it named none.               *)
PersonaIn(data) == Get(data, "persona", "absent")

(* classifier.predict_risk called by application code.                     *)
DirectCall ==
    /\ call.status = "none"
    /\ \E forecast_data \in ForecastDicts, persona_type \in PersonaInputs,
          exposure_duration \in ExposureInputs,
          proba \in ApiProbas(Len(clf.model)) :
         LET r == PredictRiskResult(clf, forecast_data, persona_type,
                                    exposure_duration, proba)
         IN  call' = [path |-> "direct",
                      status |-> IF r.status = "ok" THEN "ok" ELSE "raised",
                      persona_in |-> persona_type, persona_code |-> -1,
                      lacking |-> FeatureKeySet \ DOMAIN forecast_data,
                      produced |-> IF r.status = "ok" THEN <<r>> ELSE <<>>]
    /\ UNCHANGED notApiVars

(* POST /health-risk.                                                      *)
SingleEndpoint ==
    /\ call.status = "none"
    /\ \E data \in JsonBodies, proba \in ApiProbas(Len(clf.model)) :
         LET forecast_data == EndpointForecastData(data)
             persona_type == Get(data, "persona", "general_public")
             exposure_duration == Get(data, "exposure_duration", 2)
             r == PredictRiskResult(clf, forecast_data, persona_type,
                                    exposure_duration, proba)
             a == generate_health_advice(r.risk_category, persona_type)
             rejected == \/ persona_type \notin PersonaSet
                         \/ ~(0 <= exposure_duration /\ exposure_duration <= 24)
         IN  call' = [path |-> "single",
                      status |-> IF rejected THEN "400"
                                 ELSE IF r.status = "ok" /\ a.status = "ok"
                                      THEN "ok" ELSE "500",
                      persona_in |-> PersonaIn(data), persona_code |-> -1,
                      lacking |-> FeatureKeySet \ DOMAIN data,
                      produced |-> IF ~rejected /\ r.status = "ok"
                                   THEN <<r>> ELSE <<>>]
    /\ UNCHANGED notApiVars

(* POST /batch-health-risk: the entries in turn, up to the first exception. *)
BatchEndpoint ==
    /\ call.status = "none"
    /\ \E persona_set \in {{}} \cup {{x} : x \in PersonaInputs},
          n \in 0..MaxBatch :
         \E forecasts \in [1..n -> BatchForecasts],
            probas \in [1..n -> ApiProbas(Len(clf.model))] :
           LET persona_type ==
                   IF persona_set = {} THEN "general_public"
                   ELSE CHOOSE x \in persona_set : TRUE
               r(i) == PredictRiskResult(clf,
                           EndpointForecastData(forecasts[i]), persona_type,
                           Get(forecasts[i], "exposure_duration", 2),
                           probas[i])
               raises(i) ==
                   \/ r(i).status # "ok"
                   \/ generate_health_advice(r(i).risk_category,
                                             persona_type).status # "ok"
               failing == {i \in 1..n : raises(i)}
               stop == IF failing = {} THEN n
                       ELSE CHOOSE i \in failing : \A j \in failing : i <= j
               returned == {i \in 1..stop : r(i).status = "ok"}
           IN  call' = [path |-> "batch",
                        status |-> IF n = 0 THEN "400"
                                   ELSE IF failing = {} THEN "ok" ELSE "500",
                        persona_in |-> IF persona_set = {} THEN "absent"
                                       ELSE persona_type,
                        persona_code |-> -1,
                        lacking |-> UNION {FeatureKeySet \ DOMAIN forecasts[i] :
                                              i \in 1..n},
                        produced |-> [i \in 1..Cardinality(returned) |-> r(i)]]
    /\ UNCHANGED notApiVars

(* POST /risk-insights: the prediction, then classifier.personas[persona]. *)
InsightsEndpoint ==
    /\ call.status = "none"
    /\ \E data \in JsonBodies, proba \in ApiProbas(Len(clf.model)) :
         LET persona_type == Get(data, "persona", "general_public")
             r == PredictRiskResult(clf, EndpointForecastData(data),
                                    persona_type,
                                    Get(data, "exposure_duration", 2), proba)
         IN  call' = [path |-> "insights",
                      status |-> IF r.status = "ok" /\ persona_type \in PersonaSet
                                 THEN "ok" ELSE "500",
                      persona_in |-> PersonaIn(data), persona_code |-> -1,
                      lacking |-> FeatureKeySet \ DOMAIN data,
                      produced |-> IF r.status = "ok" THEN <<r>> ELSE <<>>]
    /\ UNCHANGED notApiVars

(* ForecastHealthRiskAnalyzer.analyze_forecast_health_risks on one row.    *)
AnalyzerCall ==
    /\ call.status = "none"
    /\ \E persona_code \in PersonaCodes, exposure_hours \in ExposureInputs,
          proba \in ApiProbas(Len(clf.model)) :
         LET persona_type == Get(persona_mapping, persona_code, "general_public")
             forecast_params ==
                 [aqi |-> Readings.aqi, pm25 |-> Readings.pm25,
                  pm10 |-> (Readings.pm25 * 3) \div 2, temperature |-> 25,
                  humidity |-> Readings.humidity,
                  wind_speed |-> Readings.wind_speed, pressure |-> 1013,
                  visibility |-> 8]
             r == PredictRiskResult(clf, forecast_params, persona_type,
                                    exposure_hours, proba)
             a == generate_health_advice(r.risk_category, persona_type)
         IN  call' = [path |-> "analyzer",
                      status |-> IF r.status = "ok" /\ a.status = "ok"
                                 THEN "ok" ELSE "raised",
                      persona_in |-> "code", persona_code |-> persona_code,
                      lacking |-> FeatureKeySet \ {"aqi", "pm25", "humidity",
                                                   "wind_speed"},
                      produced |-> IF r.status = "ok" THEN <<r>> ELSE <<>>]
    /\ UNCHANGED notApiVars

(* Within `call`: path and status of the request, the persona it named,   *)
(* the forecast keys it did not carry (lacking), and the dictionaries      *)
(* predict_risk returned while it was served (produced).                   *)

(* The caller takes the response.                                          *)
CallReset ==
    /\ call.status # "none"
    /\ call' = NoCall
    /\ UNCHANGED notApiVars

ApiNext ==
    \/ DirectCall
    \/ SingleEndpoint
    \/ BatchEndpoint
    \/ InsightsEndpoint
    \/ AnalyzerCall
    \/ CallReset

---------------------------------------------------------------------------
(* Two processes using the cached model of one location at the same time:  *)
(* forecast_next_hours (src/predict.py) and train_model (src/model.py).    *)

Procs == {"p1", "p2"}

NoArtifact == [exists |-> FALSE, writers |-> {}]

IdleProc == [pc |-> "idle", op |-> "none", overlap |-> FALSE, loaded |-> "none"]

CacheInit ==
    /\ artifact = NoArtifact
    /\ proc = [p \in Procs |-> IdleProc]

(* forecast_next_hours is called: os.path.exists(keras_path).              *)
CacheForecastCall(p) ==
    /\ proc[p].pc = "idle"
    /\ proc' = [proc EXCEPT ![p] =
                  [IdleProc EXCEPT !.op = "forecast",
                                   !.pc = IF artifact.exists THEN "found"
                                          ELSE "fitting"]]
    /\ UNCHANGED artifact
    /\ UNCHANGED notCacheVars

(* load_model(keras_path) opens the file and starts reading it.            *)
CacheLoadBegin(p) ==
    /\ proc[p].pc = "found"
    /\ proc' = [proc EXCEPT ![p].pc = "loading",
                            ![p].overlap = (artifact.writers # {})]
    /\ UNCHANGED artifact
    /\ UNCHANGED notCacheVars

(* load_model returns.  A file that was written while it was read gives    *)
(* whatever the bytes read amount to: a model, or an exception.            *)
CacheLoadEnd(p) ==
    /\ proc[p].pc = "loading"
    /\ \E outcome \in IF proc[p].overlap \/ artifact.writers # {}
                      THEN {"model", "raised"} ELSE {"model"} :
         proc' = [proc EXCEPT ![p].pc = "done", ![p].loaded = outcome,
                              ![p].overlap = proc[p].overlap
                                             \/ artifact.writers # {}]
    /\ UNCHANGED artifact
    /\ UNCHANGED notCacheVars

(* train_model is called by a retrain (main_realtime.py).                  *)
CacheTrainCall(p) ==
    /\ proc[p].pc = "idle"
    /\ proc' = [proc EXCEPT ![p] = [IdleProc EXCEPT !.op = "train",
                                                    !.pc = "fitting"]]
    /\ UNCHANGED artifact
    /\ UNCHANGED notCacheVars

(* model.fit is over; model.save opens the .keras file for writing.        *)
CacheSaveBegin(p) ==
    /\ proc[p].pc = "fitting"
    /\ artifact' = [exists |-> TRUE, writers |-> artifact.writers \cup {p}]
    /\ proc' = [q \in Procs |->
                  IF q = p THEN [proc[q] EXCEPT !.pc = "writing"]
                  ELSE IF proc[q].pc = "loading"
                       THEN [proc[q] EXCEPT !.overlap = TRUE]
                       ELSE proc[q]]
    /\ UNCHANGED notCacheVars

(* model.save returns; train_model returns to its caller.                  *)
CacheSaveEnd(p) ==
    /\ proc[p].pc = "writing"
    /\ artifact' = [artifact EXCEPT !.writers = artifact.writers \ {p}]
    /\ proc' = [proc EXCEPT ![p].pc = "done"]
    /\ UNCHANGED notCacheVars

(* The call returns or raises.                                             *)
CacheReturn(p) ==
    /\ proc[p].pc = "done"
    /\ proc' = [proc EXCEPT ![p] = IdleProc]
    /\ UNCHANGED artifact
    /\ UNCHANGED notCacheVars

CacheNext ==
    \/ \E p \in Procs : CacheForecastCall(p)
    \/ \E p \in Procs : CacheLoadBegin(p)
    \/ \E p \in Procs : CacheLoadEnd(p)
    \/ \E p \in Procs : CacheTrainCall(p)
    \/ \E p \in Procs : CacheSaveBegin(p)
    \/ \E p \in Procs : CacheSaveEnd(p)
    \/ \E p \in Procs : CacheReturn(p)

---------------------------------------------------------------------------
(* The shared HealthRiskClassifier instance while one thread retrains or   *)
(* reloads it and another is inside predict_risk.  Training runs are       *)
(* numbered from 1; 0 stands for a field never set.                        *)

MaxRuns == 2

NoShared == [scaler |-> 0, model |-> 0, fitted |-> FALSE, explainer |-> 0]

NoPickle == [present |-> FALSE, scaler |-> 0, model |-> 0, fitted |-> FALSE]

IdleTrainer == [pc |-> "idle", run |-> 0]

IdleReader ==
    [pc |-> "idle", status |-> "none", scaler |-> 0, model |-> 0, explainer |-> 0]

SwapInit ==
    /\ shared = NoShared
    /\ pickled = NoPickle
    /\ trainer = IdleTrainer
    /\ reader = IdleReader

(* train_model up to self.scaler.fit_transform(X_train): the scaler object *)
(* of the instance is refitted in place.                                   *)
SwapTrainScaler ==
    /\ trainer.pc = "idle"
    /\ trainer.run < MaxRuns
    /\ trainer' = [pc |-> "scaled", run |-> trainer.run + 1]
    /\ shared' = [shared EXCEPT !.scaler = trainer.run + 1]
    /\ UNCHANGED <<pickled, reader>>
    /\ UNCHANGED notSwapVars

(* self.model = RandomForestClassifier(...): a forest not yet fitted.      *)
SwapTrainAssign ==
    /\ trainer.pc = "scaled"
    /\ trainer' = [trainer EXCEPT !.pc = "assigned"]
    /\ shared' = [shared EXCEPT !.model = trainer.run, !.fitted = FALSE]
    /\ UNCHANGED <<pickled, reader>>
    /\ UNCHANGED notSwapVars

(* self.model.fit(X_train_scaled, y_train), and train_model returns.       *)
SwapTrainFit ==
    /\ trainer.pc = "assigned"
    /\ trainer' = [trainer EXCEPT !.pc = "idle"]
    /\ shared' = [shared EXCEPT !.fitted = TRUE]
    /\ UNCHANGED <<pickled, reader>>
    /\ UNCHANGED notSwapVars

(* setup_explainability: self.explainer = shap.TreeExplainer(self.model).  *)
SwapSetupExplainability ==
    /\ trainer.pc = "idle"
    /\ shared.fitted
    /\ shared.explainer # shared.model
    /\ shared' = [shared EXCEPT !.explainer = shared.model]
    /\ UNCHANGED <<pickled, trainer, reader>>
    /\ UNCHANGED notSwapVars

(* save_model: model and scaler of the instance go into the pickle.        *)
SwapSave ==
    /\ trainer.pc = "idle"
    /\ shared.model # 0
    /\ pickled' = [present |-> TRUE, scaler |-> shared.scaler,
                   model |-> shared.model, fitted |-> shared.fitted]
    /\ UNCHANGED <<shared, trainer, reader>>
    /\ UNCHANGED notSwapVars

(* load_model: the pickle is read and self.model assigned.                 *)
SwapLoadModel ==
    /\ trainer.pc = "idle"
    /\ pickled.present
    /\ trainer' = [trainer EXCEPT !.pc = "model_loaded"]
    /\ shared' = [shared EXCEPT !.model = pickled.model,
                                !.fitted = pickled.fitted]
    /\ UNCHANGED <<pickled, reader>>
    /\ UNCHANGED notSwapVars

(* load_model: self.scaler and the remaining fields assigned.              *)
SwapLoadScaler ==
    /\ trainer.pc = "model_loaded"
    /\ trainer' = [trainer EXCEPT !.pc = "scaler_loaded"]
    /\ shared' = [shared EXCEPT !.scaler = pickled.scaler]
    /\ UNCHANGED <<pickled, reader>>
    /\ UNCHANGED notSwapVars

(* load_model: self.setup_explainability(), and load_model returns.        *)
SwapLoadExplainer ==
    /\ trainer.pc = "scaler_loaded"
    /\ trainer' = [trainer EXCEPT !.pc = "idle"]
    /\ shared' = [shared EXCEPT !.explainer = shared.model]
    /\ UNCHANGED <<pickled, reader>>
    /\ UNCHANGED notSwapVars

(* predict_risk: self.scaler.transform([features]).                        *)
SwapPredictScale ==
    /\ reader.pc = "idle"
    /\ reader' = IF shared.scaler = 0
                 THEN [IdleReader EXCEPT !.pc = "done", !.status = "raised"]
                 ELSE [IdleReader EXCEPT !.pc = "scaled",
                                         !.scaler = shared.scaler]
    /\ UNCHANGED <<shared, pickled, trainer>>
    /\ UNCHANGED notSwapVars

(* predict_risk: self.model.predict_proba and self.model.predict.          *)
SwapPredictModel ==
    /\ reader.pc = "scaled"
    /\ reader' = IF shared.model = 0 \/ ~shared.fitted
                 THEN [reader EXCEPT !.pc = "done", !.status = "raised"]
                 ELSE [reader EXCEPT !.pc = "predicted",
                                     !.model = shared.model]
    /\ UNCHANGED <<shared, pickled, trainer>>
    /\ UNCHANGED notSwapVars

(* predict_risk: self.explainer.shap_values(features_scaled), and return.  *)
SwapPredictExplain ==
    /\ reader.pc = "predicted"
    /\ reader' = IF shared.explainer = 0
                 THEN [reader EXCEPT !.pc = "done", !.status = "raised"]
                 ELSE [reader EXCEPT !.pc = "done", !.status = "ok",
                                     !.explainer = shared.explainer]
    /\ UNCHANGED <<shared, pickled, trainer>>
    /\ UNCHANGED notSwapVars

(* The caller takes the result or the exception.                           *)
SwapPredictReturn ==
    /\ reader.pc = "done"
    /\ reader' = IdleReader
    /\ UNCHANGED <<shared, pickled, trainer>>
    /\ UNCHANGED notSwapVars

SwapNext ==
    \/ SwapTrainScaler
    \/ SwapTrainAssign
    \/ SwapTrainFit
    \/ SwapSetupExplainability
    \/ SwapSave
    \/ SwapLoadModel
    \/ SwapLoadScaler
    \/ SwapLoadExplainer
    \/ SwapPredictScale
    \/ SwapPredictModel
    \/ SwapPredictExplain
    \/ SwapPredictReturn

---------------------------------------------------------------------------
(* The scaling of src/model.py:53-54 and src/predict.py:11-13 on its own:  *)
(* fit on a series, transform a raw value, inverse_transform the result.   *)

ScalingInit ==
    /\ sc_pc = "idle"
    /\ sc_series = <<>>
    /\ sc_fit = NoScaler
    /\ sc_raw = 0
    /\ sc_scaled = Rat(0, 1)
    /\ sc_back = Rat(0, 1)

(* scaler.fit_transform(values): fitting; an empty column raises.          *)
ScalingFit ==
    /\ sc_pc = "idle"
    /\ \E series \in SeriesSet :
         /\ sc_series' = series
         /\ IF Len(series) = 0
            THEN /\ sc_pc' = "error"
                 /\ UNCHANGED sc_fit
            ELSE /\ sc_pc' = "fitted"
                 /\ sc_fit' = ScalerFit(series)
    /\ UNCHANGED <<sc_raw, sc_scaled, sc_back>>
    /\ UNCHANGED notScalingVars

(* transform of a raw value between the observed minimum and maximum.      *)
ScalingTransform ==
    /\ sc_pc = "fitted"
    /\ \E v \in sc_fit.mn..sc_fit.mx :
         /\ sc_raw' = v
         /\ sc_scaled' = Scale(sc_fit, v)
    /\ sc_pc' = "scaled"
    /\ UNCHANGED <<sc_series, sc_fit, sc_back>>
    /\ UNCHANGED notScalingVars

(* inverse_transform of the scaled value.                                  *)
ScalingInverse ==
    /\ sc_pc = "scaled"
    /\ sc_back' = InverseScale(sc_fit, sc_scaled)
    /\ sc_pc' = "restored"
    /\ UNCHANGED <<sc_series, sc_fit, sc_raw, sc_scaled>>
    /\ UNCHANGED notScalingVars

(* The scaler is dropped at the end of the call.                           *)
ScalingReset ==
    /\ sc_pc \in {"restored", "error"}
    /\ sc_pc' = "idle"
    /\ sc_series' = <<>>
    /\ sc_fit' = NoScaler
    /\ sc_raw' = 0
    /\ sc_scaled' = Rat(0, 1)
    /\ sc_back' = Rat(0, 1)
    /\ UNCHANGED notScalingVars

ScalingNext ==
    \/ ScalingFit
    \/ ScalingTransform
    \/ ScalingInverse
    \/ ScalingReset

---------------------------------------------------------------------------
(* Two runs of forecast_next_hours on a model_path without an artifact:    *)
(* each trains (src/model.py:50-95) and forecasts (src/predict.py:23-45).  *)

(* The loop of predict.py:34-38 carried out k times.                       *)
RECURSIVE Rollout(_, _, _)
Rollout(m, window, k) ==
    IF k <= 0 THEN <<>>
    ELSE LET pred == Predict(m, window)
         IN  <<pred>> \o Rollout(m, SlideWindow(window, pred), k - 1)

NoRun ==
    [status |-> "none", series |-> <<>>, window_size |-> 0, hours |-> 0,
     weights |-> "none", forecast |-> <<>>]

(* forecast_next_hours(df, model_path, hours, window_size) with no cached  *)
(* model; `weights` is what the fit of this run arrives at.                *)
TrainThenForecast(series, W, h, weights) ==
    LET out == train_model(series, W, weights)
        scaled == ScaleAll(out.scaler, series)
        preds == Rollout(out.model, InitialWindow(scaled, W), h)
        ok == out.ok /\ Len(preds) > 0
    IN  [status |-> IF ok THEN "ok" ELSE "raised",
         series |-> series, window_size |-> W, hours |-> h,
         weights |-> IF out.ok THEN weights ELSE "none",
         forecast |-> IF ok
                      THEN [i \in DOMAIN preds |->
                               InverseScale(out.scaler, preds[i])]
                      ELSE <<>>]

RunsInit ==
    /\ first = NoRun
    /\ second = NoRun

(* The first run.                                                          *)
RunFirst ==
    /\ first.status = "none"
    /\ \E series \in SeriesSet, h \in Horizons, W \in Windows, w \in WeightKinds :
         first' = TrainThenForecast(series, W, h, w)
    /\ UNCHANGED second
    /\ UNCHANGED notRunVars

(* The second run: the same series, window_size and hours; the fit starts  *)
(* from its own initialisation and shuffling.                              *)
RunSecond ==
    /\ first.status # "none"
    /\ second.status = "none"
    /\ \E w \in WeightKinds :
         second' = TrainThenForecast(first.series, first.window_size,
                                     first.hours, w)
    /\ UNCHANGED first
    /\ UNCHANGED notRunVars

(* Both outcomes are taken.                                                *)
RunsReset ==
    /\ second.status # "none"
    /\ first' = NoRun
    /\ second' = NoRun
    /\ UNCHANGED notRunVars

RunsNext ==
    \/ RunFirst
    \/ RunSecond
    \/ RunsReset

---------------------------------------------------------------------------
(* create_sequences (src/model.py:10-15) as the loop it is, followed by    *)
(* the split of train_model (src/model.py:56-61).  Indices are 0-based as  *)
(* in the source; data[i] of the source is cs_data[i + 1] here.            *)

(* for i in range(len(data) - window_size), seen as a while loop.          *)
SequenceLoopContinuesMutant(i, n, W) == i <= n - W

SequenceLoopContinues(i, n, W) == i < n - W

(* The indices a slice data[a:b] reads: those of a..b-1 that exist.        *)
SliceReads(a, b, n) == {j \in a..(b - 1) : 0 <= j /\ j < n}

(* data[a:b] for 0 <= a.                                                   *)
Slice(data, a, b) ==
    SubSeq(data, a + 1, IF b < Len(data) THEN b ELSE Len(data))

PairsInit ==
    /\ cs_pc = "idle"
    /\ cs_data = <<>>
    /\ cs_W = 0
    /\ cs_i = 0
    /\ cs_pairs = <<>>
    /\ cs_reads = {}
    /\ cs_train = <<>>
    /\ cs_val = <<>>

(* create_sequences(scaled, window_size) is entered: X, y = [], [].        *)
PairsCall ==
    /\ cs_pc = "idle"
    /\ \E data \in SeriesSet, W \in Windows :
         /\ cs_data' = data
         /\ cs_W' = W
    /\ cs_pc' = "loop"
    /\ UNCHANGED <<cs_i, cs_pairs, cs_reads, cs_train, cs_val>>
    /\ UNCHANGED notPairVars

(* One iteration: X.append(data[i:i+W]); y.append(data[i+W]).  Indexing    *)
(* past the end raises IndexError.  Each pair keeps the index of its       *)
(* target.                                                                 *)
PairsStep ==
    /\ cs_pc = "loop"
    /\ SequenceLoopContinues(cs_i, Len(cs_data), cs_W)
    /\ cs_reads' = cs_reads \cup SliceReads(cs_i, cs_i + cs_W, Len(cs_data))
                            \cup {cs_i + cs_W}
    /\ IF cs_i + cs_W >= Len(cs_data)
       THEN /\ cs_pc' = "error"
            /\ UNCHANGED <<cs_i, cs_pairs>>
       ELSE /\ cs_pairs' = Append(cs_pairs,
                              [X |-> Slice(cs_data, cs_i, cs_i + cs_W),
                               y |-> cs_data[cs_i + cs_W + 1],
                               target |-> cs_i + cs_W])
            /\ cs_i' = cs_i + 1
            /\ UNCHANGED cs_pc
    /\ UNCHANGED <<cs_data, cs_W, cs_train, cs_val>>
    /\ UNCHANGED notPairVars

(* The loop is over: return np.array(X), np.array(y).                      *)
PairsBuilt ==
    /\ cs_pc = "loop"
    /\ ~SequenceLoopContinues(cs_i, Len(cs_data), cs_W)
    /\ cs_pc' = "built"
    /\ UNCHANGED <<cs_data, cs_W, cs_i, cs_pairs, cs_reads, cs_train, cs_val>>
    /\ UNCHANGED notPairVars

(* split_idx = int(0.85 * len(X)); X[:split_idx], X[split_idx:] and the    *)
(* same for y.                                                             *)
PairsSplit ==
    /\ cs_pc = "built"
    /\ LET split_idx == SplitIdx(Len(cs_pairs))
       IN  /\ cs_train' = Slice(cs_pairs, 0, split_idx)
           /\ cs_val' = Slice(cs_pairs, split_idx, Len(cs_pairs))
    /\ cs_pc' = "split"
    /\ UNCHANGED <<cs_data, cs_W, cs_i, cs_pairs, cs_reads>>
    /\ UNCHANGED notPairVars

(* The arrays go to model.fit; the locals are gone.                        *)
PairsReset ==
    /\ cs_pc \in {"split", "error"}
    /\ cs_pc' = "idle"
    /\ cs_data' = <<>>
    /\ cs_W' = 0
    /\ cs_i' = 0
    /\ cs_pairs' = <<>>
    /\ cs_reads' = {}
    /\ cs_train' = <<>>
    /\ cs_val' = <<>>
    /\ UNCHANGED notPairVars

PairsNext ==
    \/ PairsCall
    \/ PairsStep
    \/ PairsBuilt
    \/ PairsSplit
    \/ PairsReset

---------------------------------------------------------------------------
(* HealthRiskClassifier.explain_prediction                                 *)
(* (src/health_risk_classifier.py:259-304).                                *)

MaxFeatures == 6

(* feature_impacts[:5]                                                     *)
TopCount == 5

(* Signed contributions: below zero, zero, above zero.                     *)
ShapValues == {-2, 0, 1}

(* What explainer.shap_values returns for a forest of several classes: a   *)
(* list with one array per class (in the order of classes_), or one array  *)
(* with a trailing class axis, depending on the installed shap.            *)
ShapFormats == {"list", "array"}

AbsMutant(x) == x

Abs(x) == IF x < 0 THEN -x ELSE x

(* list.index(x), 0-based.                                                 *)
IndexOf(seq, x) == (CHOOSE i \in DOMAIN seq : seq[i] = x) - 1

(* Lines 270-275: the entry of the per-class list that is read.            *)
SelectedClassIdx(risk_category, nclasses) ==
    LET predicted_class_idx == IndexOf(RiskCategories, risk_category)
    IN  IF predicted_class_idx < nclasses THEN predicted_class_idx ELSE 0

(* Lines 281-291: one entry per feature, in feature order.                 *)
FeatureImpacts(class_shap_values) ==
    [i \in DOMAIN class_shap_values |->
        [feature |-> i,
         impact |-> IF class_shap_values[i] > 0 THEN "increases"
                    ELSE "decreases",
         magnitude |-> Abs(class_shap_values[i])]]

(* list.sort(key=magnitude, reverse=True): descending, entries of equal    *)
(* magnitude keep their order.                                             *)
SortByMagnitude(impacts) ==
    LET before(a, b) ==
            \/ impacts[a].magnitude > impacts[b].magnitude
            \/ impacts[a].magnitude = impacts[b].magnitude /\ a < b
        place(a) == 1 + Cardinality({b \in DOMAIN impacts : before(b, a)})
    IN  [k \in DOMAIN impacts |->
            impacts[CHOOSE a \in DOMAIN impacts : place(a) = k]]

(* explain_prediction on a prediction of `risk_category` by a model with   *)
(* the given classes; class_shap_values are the contributions of the       *)
(* entry it reads.                                                         *)
explain_prediction(risk_category, classes, format, class_shap_values) ==
    IF format = "array"
    THEN \* float() of a row holding one value per class raises TypeError
         [status |-> "raised", risk_category |-> risk_category,
          explained_class |-> "", contributions |-> class_shap_values,
          factors |-> <<>>]
    ELSE LET sorted == SortByMagnitude(FeatureImpacts(class_shap_values))
         IN  [status |-> "ok", risk_category |-> risk_category,
              explained_class |->
                  classes[SelectedClassIdx(risk_category, Len(classes)) + 1],
              contributions |-> class_shap_values,
              factors |-> SubSeq(sorted, 1, Min(TopCount, Len(sorted)))]

NoExplanation ==
    [status |-> "none", risk_category |-> "", explained_class |-> "",
     contributions |-> <<>>, factors |-> <<>>]

ExplainInit == expl = NoExplanation

(* explain_prediction(classifier.predict_risk(...)).                       *)
Explain ==
    /\ expl.status = "none"
    /\ \E k \in DOMAIN clf.model, format \in ShapFormats, nf \in 1..MaxFeatures :
         \E class_shap_values \in [1..nf -> ShapValues] :
            expl' = explain_prediction(clf.model[k], clf.model, format,
                                       class_shap_values)
    /\ UNCHANGED notExplainVars

(* The caller takes the explanation.                                       *)
ExplainReset ==
    /\ expl.status # "none"
    /\ expl' = NoExplanation
    /\ UNCHANGED notExplainVars

ExplainNext ==
    \/ Explain
    \/ ExplainReset

---------------------------------------------------------------------------
(* One loaded HealthRiskClassifier serving predict_risk,                   *)
(* generate_health_advice and explain_prediction in any order, and         *)
(* forecast_next_hours working on a caller's series.  The forest is a      *)
(* function of the scaled features; here of the persona, the requests      *)
(* differing in nothing else.                                              *)

(* MinMaxScaler() keeps the default copy=True.                             *)
ScalerCopyMutant == FALSE

ScalerCopy == TRUE

(* What the array handed to fit_transform holds afterwards.                *)
ArrayAfterFitTransform(values, copy) ==
    IF copy \/ Len(values) = 0 THEN values
    ELSE LET sc == ScalerFit([i \in DOMAIN values |-> values[i].n])
         IN  [i \in DOMAIN values |-> Scale(sc, values[i].n)]

(* predict_proba with all weight on class k.                               *)
OneHot(k, n) == [i \in 1..n |-> IF i = k THEN ProbTotal ELSE 0]

NoFrameClf ==
    [model |-> <<>>, scaler_fitted |-> FALSE, explainer |-> <<>>,
     forest |-> <<>>, feature_names |-> <<>>,
     risk_categories |-> RiskCategories, personas |-> PersonaSet]

NoFrameCall == [kind |-> "none", request |-> "", result |-> <<>>]

FrameInit ==
    /\ fr_clf = NoFrameClf
    /\ fr_loaded = NoFrameClf
    /\ fr_seen = NoFrameCall
    /\ fr_out = NoFrameCall

(* load_model: every field from the pickle, then the explainer.            *)
FrameLoad ==
    /\ fr_clf = NoFrameClf
    /\ \E forest \in [PersonaSet -> {1, Len(SortedLabels)}] :
         LET loaded == [model |-> SortedLabels, scaler_fitted |-> TRUE,
                        explainer |-> SortedLabels, forest |-> forest,
                        feature_names |-> TrainFeatureColumns,
                        risk_categories |-> RiskCategories,
                        personas |-> PersonaSet]
         IN  /\ fr_clf' = loaded
             /\ fr_loaded' = loaded
    /\ UNCHANGED <<fr_seen, fr_out>>
    /\ UNCHANGED notFrameVars

(* predict_risk: no attribute of the instance is assigned.                 *)
FramePredict ==
    /\ fr_clf # NoFrameClf
    /\ \E persona_type \in PersonaSet :
         LET r == predict_risk(fr_clf, persona_type,
                               OneHot(fr_clf.forest[persona_type],
                                      Len(fr_clf.model)))
         IN  /\ fr_out' = [kind |-> "predict", request |-> persona_type,
                           result |-> r]
             /\ fr_seen' = IF fr_seen = NoFrameCall THEN fr_out' ELSE fr_seen
    /\ UNCHANGED <<fr_clf, fr_loaded>>
    /\ UNCHANGED notFrameVars

(* generate_health_advice: a lookup in a table built inside the call.      *)
FrameAdvice ==
    /\ fr_clf # NoFrameClf
    /\ \E risk_category \in CategorySet, persona_type \in PersonaSet :
         fr_out' = [kind |-> "advice", request |-> persona_type,
                    result |-> generate_health_advice(risk_category,
                                                      persona_type)]
    /\ UNCHANGED <<fr_clf, fr_loaded, fr_seen>>
    /\ UNCHANGED notFrameVars

(* explain_prediction: works on the prediction result and local lists.     *)
FrameExplain ==
    /\ fr_clf # NoFrameClf
    /\ \E persona_type \in PersonaSet, format \in ShapFormats,
          class_shap_values \in [1..1 -> ShapValues] :
         fr_out' = [kind |-> "explain", request |-> persona_type,
                    result |-> explain_prediction(
                                   fr_clf.model[fr_clf.forest[persona_type]],
                                   fr_clf.model, format, class_shap_values)]
    /\ UNCHANGED <<fr_clf, fr_loaded, fr_seen>>
    /\ UNCHANGED notFrameVars

(* forecast_next_hours(df, ...): values = df["aqi"].values.reshape(-1, 1)  *)
(* shares the frame's memory and goes to scaler.fit_transform; the window  *)
(* and the predictions are built from the scaled copy.                     *)
FrameForecast ==
    /\ \E series \in SeriesSet :
         LET values == [i \in DOMAIN series |-> Rat(series[i], 1)]
         IN  fr_out' = [kind |-> "forecast", request |-> values,
                        result |->
                          [df |-> ArrayAfterFitTransform(values, ScalerCopy),
                           forecast |->
                             TrainThenForecast(series, 1, 1,
                                               "persist").forecast]]
    /\ UNCHANGED <<fr_clf, fr_loaded, fr_seen>>
    /\ UNCHANGED notFrameVars

FrameNext ==
    \/ FrameLoad
    \/ FramePredict
    \/ FrameAdvice
    \/ FrameExplain
    \/ FrameForecast

---------------------------------------------------------------------------
(* src/real_time_aqi.py: pm25_to_aqi and pm10_to_aqi.  Concentrations are  *)
(* counted in tenths of a microgram per cubic metre, so 35.4 is 354; the   *)
(* results are exact rationals.                                            *)

(* How far from a breakpoint the concentrations tried lie, in tenths.      *)
MaxNear == 1

(* base + (rise / run) * dx                                                *)
Line(base, rise, run, dx) == Rat(base * run + rise * dx, run)

(* Segments measured from the EPA table's low ends 12.1, 35.5, 55.5, ...   *)
pm25_branch_mutant(k, c) ==
    CASE k = 1 -> Line(0, 50, 120, c)
      [] k = 2 -> Line(50, 100 - 50, 354 - 121, c - 121)
      [] k = 3 -> Line(100, 150 - 100, 554 - 355, c - 355)
      [] k = 4 -> Line(150, 200 - 150, 1504 - 555, c - 555)
      [] k = 5 -> Line(200, 300 - 200, 2504 - 1505, c - 1505)
      [] OTHER -> Line(300, 500 - 300, 5004 - 2505, c - 2505)

(* The return expression of the k-th branch of pm25_to_aqi.                *)
pm25_branch(k, c) ==
    CASE k = 1 -> Line(0, 50, 120, c)
      [] k = 2 -> Line(50, 100 - 50, 354 - 120, c - 120)
      [] k = 3 -> Line(100, 150 - 100, 554 - 354, c - 354)
      [] k = 4 -> Line(150, 200 - 150, 1504 - 554, c - 554)
      [] k = 5 -> Line(200, 300 - 200, 2504 - 1504, c - 1504)
      [] OTHER -> Line(300, 500 - 300, 5004 - 2504, c - 2504)

(* The branch the if / elif chain of pm25_to_aqi takes.                    *)
pm25_select(c) ==
    IF c <= 120 THEN 1
    ELSE IF c <= 354 THEN 2
    ELSE IF c <= 554 THEN 3
    ELSE IF c <= 1504 THEN 4
    ELSE IF c <= 2504 THEN 5
    ELSE 6

pm25_to_aqi(c) == pm25_branch(pm25_select(c), c)

(* The return expression of the k-th branch of pm10_to_aqi.                *)
pm10_branch(k, c) ==
    CASE k = 1 -> Line(0, 50, 540, c)
      [] k = 2 -> Line(50, 100 - 50, 1540 - 540, c - 540)
      [] k = 3 -> Line(100, 150 - 100, 2540 - 1540, c - 1540)
      [] k = 4 -> Line(150, 200 - 150, 3540 - 2540, c - 2540)
      [] k = 5 -> Line(200, 300 - 200, 4240 - 3540, c - 3540)
      [] OTHER -> Line(300, 500 - 300, 6040 - 4240, c - 4240)

(* The branch the if / elif chain of pm10_to_aqi takes.                    *)
pm10_select(c) ==
    IF c <= 540 THEN 1
    ELSE IF c <= 1540 THEN 2
    ELSE IF c <= 2540 THEN 3
    ELSE IF c <= 3540 THEN 4
    ELSE IF c <= 4240 THEN 5
    ELSE 6

pm10_to_aqi(c) == pm10_branch(pm10_select(c), c)

Pollutants == {"pm25", "pm10"}

(* The concentrations the branch conditions compare with.                  *)
BranchLimits(kind) ==
    IF kind = "pm25" THEN <<120, 354, 554, 1504, 2504>>
    ELSE <<540, 1540, 2540, 3540, 4240>>

Branch(kind, k, c) == IF kind = "pm25" THEN pm25_branch(k, c) ELSE pm10_branch(k, c)

Select(kind, c) == IF kind = "pm25" THEN pm25_select(c) ELSE pm10_select(c)

ToAqi(kind, c) == IF kind = "pm25" THEN pm25_to_aqi(c) ELSE pm10_to_aqi(c)

(* Zero, and the concentrations at and next to every branch limit.         *)
Concentrations(kind) ==
    {0} \cup {BranchLimits(kind)[k] + d :
                 k \in DOMAIN BranchLimits(kind), d \in (0 - MaxNear)..MaxNear}

NoReading == [c |-> -1, aqi |-> Rat(0, 1)]

AqiInit ==
    /\ aq_kind = "none"
    /\ aq_lo = NoReading
    /\ aq_hi = NoReading

AqiConvert ==
    /\ aq_kind = "none"
    /\ \E kind \in Pollutants :
         /\ aq_kind' = kind
         /\ \E c \in Concentrations(kind) :
              aq_lo' = [c |-> c, aqi |-> ToAqi(kind, c)]
    /\ UNCHANGED aq_hi
    /\ UNCHANGED notAqiVars

AqiConvertAgain ==
    /\ aq_kind # "none"
    /\ aq_hi = NoReading
    /\ \E c \in Concentrations(aq_kind) :
         /\ c >= aq_lo.c
         /\ aq_hi' = [c |-> c, aqi |-> ToAqi(aq_kind, c)]
    /\ UNCHANGED <<aq_kind, aq_lo>>
    /\ UNCHANGED notAqiVars

AqiReset ==
    /\ aq_hi # NoReading
    /\ aq_kind' = "none"
    /\ aq_lo' = NoReading
    /\ aq_hi' = NoReading
    /\ UNCHANGED notAqiVars

AqiNext ==
    \/ AqiConvert
    \/ AqiConvertAgain
    \/ AqiReset

---------------------------------------------------------------------------
ExtInit ==
    /\ AqiInit
    /\ FrameInit
    /\ ExplainInit
    /\ PairsInit
    /\ RunsInit
    /\ ApiCallInit
    /\ CacheInit
    /\ SwapInit
    /\ ScalingInit

Init ==
    /\ ForecastInit
    /\ RiskInit
    /\ AdviceInit
    /\ ExtInit

InitApi ==
    /\ ForecastInit
    /\ ApiRiskInit
    /\ AdviceInit
    /\ ExtInit

SpecForecast == Init /\ [][ForecastNext]_vars

SpecRisk == Init /\ [][RiskNext]_vars

SpecAdvice == Init /\ [][AdviceNext]_vars

SpecApi == InitApi /\ [][ApiNext]_vars

SpecCache == Init /\ [][CacheNext]_vars

SpecSwap == Init /\ [][SwapNext]_vars

SpecScaling == Init /\ [][ScalingNext]_vars

SpecRuns == Init /\ [][RunsNext]_vars

SpecPairs == Init /\ [][PairsNext]_vars

SpecExplain == InitApi /\ [][ExplainNext]_vars

SpecFrame == Init /\ [][FrameNext]_vars

SpecAqi == Init /\ [][AqiNext]_vars

---------------------------------------------------------------------------
(* Sequence forecaster: claims C1 - C6                                     *)

HasCachedArtifact == kerasFile # NoModel \/ h5File # NoModel

(* C1: whenever forecast_next_hours returns, whatever the series and the   *)
(* window size, and whether the model came from the cache or was trained   *)
(* in the same call, the returned sequence has exactly `hours` elements;   *)
(* while the loop runs it never holds more than `hours` predictions.       *)
C1_HorizonLength ==
    /\ (op = "forecast" /\ pc = "done") =>
          (hours \in 1..MaxHours /\ Len(result) = hours)
    /\ (op = "forecast" /\ pc = "loop") => Len(predictions_scaled) <= hours

C1_Witness ==
    /\ op = "forecast"
    /\ pc = "done"
    /\ hours = MaxHours
    /\ Len(result) = MaxHours
    /\ trainedNow = "ok"
    /\ kerasFile = model

(* C2: a forecast on a non-empty series shorter than window_size never     *)
(* raises, with or without a cached model: its window is the series        *)
(* left-padded with the earliest scaled value and it returns `hours`       *)
(* predictions.  (A cached model is one of this window size.)              *)
C2_ShortSeriesNeverRaises ==
    (/\ op = "forecast"
     /\ pc # "idle"
     /\ hours >= 1
     /\ Len(df) >= 1
     /\ Len(df) < window_size
     /\ (cachedAtStart => model.W = window_size))
    => /\ pc # "error"
       /\ pc = "done" => Len(result) = hours

(* C3: in the loop the window always has window_size elements; each        *)
(* iteration produces one prediction, the model's output on the current    *)
(* window, and the next window is the current one without its oldest       *)
(* element and with that prediction appended; the series is not touched.   *)
C3_WindowSlides ==
    /\ []((op = "forecast" /\ pc = "loop") => Len(last_seq) = window_size)
    /\ [][(pc = "loop" /\ pc' = "loop") =>
            /\ Len(predictions_scaled') = Len(predictions_scaled) + 1
            /\ predictions_scaled'[Len(predictions_scaled')] = Predict(model, last_seq)
            /\ SubSeq(predictions_scaled', 1, Len(predictions_scaled)) = predictions_scaled
            /\ last_seq' = Append(Tail(last_seq),
                                  predictions_scaled'[Len(predictions_scaled')])
            /\ df' = df]_vars

C3_Witness ==
    /\ op = "forecast"
    /\ pc = "loop"
    /\ window_size >= 2
    /\ Len(df) >= window_size
    /\ Len(predictions_scaled) >= 2
    /\ model.weights = "half"
    /\ last_seq[window_size] = predictions_scaled[Len(predictions_scaled)]
    /\ last_seq[window_size - 1] = predictions_scaled[Len(predictions_scaled) - 1]

(* C4: a forecast call on a (non-empty) series runs train_model exactly    *)
(* when neither file of the location exists as the call starts; a          *)
(* training that completes leaves its model in the .keras file; a call     *)
(* that finds an artifact uses that artifact, does not train, and no such  *)
(* call ever changes either file, whatever series it is given.             *)
C4_TrainOrLoad ==
    /\ []((op = "forecast" /\ pc # "idle" /\ Len(df) > 0) =>
            ((trainedNow # "no") <=> ~cachedAtStart))
    /\ []((op = "forecast" /\ trainedNow = "ok") =>
            (kerasFile = model /\ model.src = "train"))
    /\ []((op = "forecast" /\ cachedAtStart /\ pc \in {"loop", "done"}) =>
            (/\ trainedNow = "no"
             /\ model = (IF kerasFile # NoModel THEN kerasFile ELSE h5File)))
    /\ [][(HasCachedArtifact /\ op' # "train") =>
            (kerasFile' = kerasFile /\ h5File' = h5File)]_vars

C4_Witness ==
    /\ op = "forecast"
    /\ pc = "done"
    /\ cachedAtStart
    /\ trainedNow = "no"
    /\ model.src = "train"
    /\ model = kerasFile
    /\ (scaler.mn # model.fitMin \/ scaler.mx # model.fitMax)

(* C5: the scaling a forecast scales its window and inverse-scales its     *)
(* predictions with is the one fitted by the training run that produced    *)
(* the model it uses.                                                      *)
C5_ScalingIsTrainingScaling ==
    (op = "forecast" /\ pc \in {"loop", "done"} /\ model.src = "train") =>
        (scaler.mn = model.fitMin /\ scaler.mx = model.fitMax)

(* C6: train_model on a series of at most window_size values, called       *)
(* directly or from a forecast that found no artifact, ends in an error,   *)
(* yields no model and leaves both files as they were.                     *)
C6_ShortTrainingFails ==
    [][(/\ pc = "idle"
        /\ pc' # "idle"
        /\ Len(df') <= window_size'
        /\ (op' = "train" \/ (~cachedAtStart' /\ Len(df') > 0)))
       => (/\ pc' = "error"
           /\ trainedNow' = "failed"
           /\ err' \in {"EmptySeries", "EmptyTrainingSet"}
           /\ model' = NoModel
           /\ kerasFile' = kerasFile
           /\ h5File' = h5File)]_vars

C6_Witness ==
    /\ op = "train"
    /\ pc = "error"
    /\ Len(df) = window_size
    /\ trainedNow = "failed"
    /\ kerasFile # NoModel
    /\ kerasFile.src = "train"

---------------------------------------------------------------------------
(* Risk predictors: claims C7 - C9                                         *)

Severity(c) ==
    CASE c = "Low" -> 1
      [] c = "Moderate" -> 2
      [] c = "High" -> 3
      [] c = "Hazardous" -> 4

FullCoverage == risk.status = "ok" /\ Len(risk.classes) = Len(RiskCategories)

(* C7: in every RiskResult (here: of a model trained on all four           *)
(* categories) each category's entry is the probability the model          *)
(* computed for that category, and risk_category holds the largest entry.  *)
C7_CategoryIsArgmax ==
    FullCoverage =>
        /\ \A i \in DOMAIN risk.classes :
              /\ risk.classes[i] \in DOMAIN risk.probs
              /\ risk.probs[risk.classes[i]] = risk.proba[i]
        /\ risk.risk_category \in DOMAIN risk.probs
        /\ \A c \in DOMAIN risk.probs : risk.probs[c] <= risk.probs[risk.risk_category]

(* C8: every RiskResult has one entry for each of the four categories and  *)
(* the entries sum to the whole.                                           *)
C8_FourEntriesSumToOne ==
    risk.status = "ok" =>
        /\ DOMAIN risk.probs = CategorySet
        /\ SeqSum([i \in 1..Len(RiskCategories) |-> risk.probs[RiskCategories[i]]])
              = ProbTotal

(* C9: when several categories share the highest computed probability,     *)
(* risk_category is the most severe of them (Hazardous > High > Moderate   *)
(* > Low).                                                                 *)
C9_TieGoesToMostSevere ==
    FullCoverage =>
        LET top == {i \in DOMAIN risk.proba :
                      \A j \in DOMAIN risk.proba : risk.proba[j] <= risk.proba[i]}
        IN  Cardinality(top) >= 2 =>
               \A i \in top : Severity(risk.classes[i]) <= Severity(risk.risk_category)

---------------------------------------------------------------------------
(* Advice lookup: claim C10                                                *)

(* C10: for every category and every persona of the table                  *)
(* generate_health_advice returns a non-empty string, and two calls with   *)
(* the same pair return the same string.                                   *)
C10_AdviceTotal ==
    /\ (advice.status # "none" /\ advice.category \in CategorySet
        /\ advice.persona \in PersonaSet) =>
          (advice.status = "ok" /\ advice.text # "")
    /\ (advice.status = "ok" /\ prevAdvice.status = "ok"
        /\ advice.category = prevAdvice.category
        /\ advice.persona = prevAdvice.persona) =>
          advice.text = prevAdvice.text

C10_Witness ==
    /\ advice.status = "ok"
    /\ advice.category = "Hazardous"
    /\ advice.persona = "general_public"
    /\ advice.text # ""
    /\ prevAdvice = advice

---------------------------------------------------------------------------
(* Claims about the callers of predict_risk.                               *)

(* The request named a persona that is none of the three known ones.       *)
UnknownPersonaGiven ==
    \/ call.persona_in = "unknown"
    \/ call.path = "analyzer" /\ call.persona_code \notin DOMAIN persona_mapping

(* C11: a persona outside the three known ones makes predict_risk fail with *)
(* an invalid-persona error; on every call path (direct, single, batch and *)
(* insights endpoints, forecast analyzer) no RiskResult is produced for    *)
(* such a persona and it is not replaced by a known one.                   *)
C11_UnknownPersonaRejected ==
    UnknownPersonaGiven =>
        /\ call.status \in {"400", "500", "raised"}
        /\ call.produced = <<>>

(* C12: an exposure_hours outside 0..24 makes predict_risk fail with an    *)
(* invalid-exposure error; no call path produces a RiskResult for such an  *)
(* exposure.                                                               *)
C12_ExposureRangeEnforced ==
    \A i \in DOMAIN call.produced :
        /\ 0 <= call.produced[i].exposure_duration
        /\ call.produced[i].exposure_duration <= 24

(* The three persona indicators of a feature vector.                       *)
PersonaIndicators(features) == SubSeq(features, 10, 12)

(* C13: every feature vector handed to the model has exactly one persona   *)
(* indicator equal to 1 and the other two equal to 0.                      *)
C13_OnePersonaIndicator ==
    \A i \in DOMAIN call.produced :
        PersonaIndicators(call.produced[i].features) \in
            {<<1, 0, 0>>, <<0, 1, 0>>, <<0, 0, 1>>}

(* C14: a request lacking one of the required inputs (aqi, pm25, pm10,     *)
(* temperature, humidity, wind_speed, pressure, visibility) fails with an  *)
(* error; no default value stands in for the missing input.                *)
C14_NoDefaultForMissingInput ==
    call.lacking # {} =>
        /\ call.status \in {"400", "500", "raised"}
        /\ call.produced = <<>>

(* C15: training a risk classifier on examples that lack one of the four   *)
(* categories fails; no model is installed in memory or written to disk.   *)
C15_TrainingNeedsAllCategories ==
    /\ clf.model # <<>> => Len(clf.model) = Len(RiskCategories)
    /\ clfFile.model # <<>> => Len(clfFile.model) = Len(RiskCategories)
    /\ hrm.model # 0 => hrm.model = Len(RiskCategories)
    /\ hrmDisk.model # 0 => hrmDisk.model = Len(RiskCategories)

---------------------------------------------------------------------------
(* Claims about concurrent use.                                            *)

(* C16: a forecast and a (re)train of the same location are serialized: a  *)
(* forecast never loads an artifact that training is still writing.        *)
C16_LoadNeverOverlapsWrite ==
    \A p \in Procs : proc[p].pc = "loading" => artifact.writers = {}

(* C17: while the shared classifier is retrained or reloaded, every        *)
(* prediction uses a model, a scaler and an explainer that come from the   *)
(* same training run.                                                      *)
C17_PredictionFromOneRun ==
    reader.status = "ok" =>
        /\ reader.scaler = reader.model
        /\ reader.model = reader.explainer

---------------------------------------------------------------------------
(* Further claims about the forecaster.                                    *)

(* C18: a forecast asked for a horizon below 1 is rejected: it returns no  *)
(* forecast, and it neither trains nor writes a cached model on the way.   *)
C18_BadHorizonRejectedCleanly ==
    (op = "forecast" /\ hours < 1) =>
        /\ pc # "done"
        /\ trainedNow = "no"

(* C19, as stated: for the scaling fitted on a series, inverse_scale of    *)
(* scale(v) is v for every raw v between the observed minimum and maximum, *)
(* the minimum maps to 0 and the maximum to 1, a constant series included. *)
C19_AsStated ==
    /\ sc_pc = "restored" => sc_back = Rat(sc_raw, 1)
    /\ (sc_pc \in {"scaled", "restored"} /\ sc_raw = SeqMin(sc_series)) =>
           sc_scaled = Rat(0, 1)
    /\ (sc_pc \in {"scaled", "restored"} /\ sc_raw = SeqMax(sc_series)) =>
           sc_scaled = Rat(1, 1)

(* C19, amended: inverse_scale of scale(v) is v for every raw v between    *)
(* the observed minimum and maximum, a constant series included; the       *)
(* minimum maps to 0; the maximum maps to 1 when it differs from the       *)
(* minimum, and the one value of a constant series maps to 0.              *)
C19_RoundTrip ==
    /\ sc_pc = "restored" => sc_back = Rat(sc_raw, 1)
    /\ (sc_pc \in {"scaled", "restored"} /\ sc_raw = SeqMin(sc_series)) =>
           sc_scaled = Rat(0, 1)
    /\ (sc_pc \in {"scaled", "restored"} /\ sc_raw = SeqMax(sc_series)
            /\ SeqMin(sc_series) < SeqMax(sc_series)) =>
           sc_scaled = Rat(1, 1)

(* A value of a constant series has gone through scale and inverse_scale.  *)
C19_Witness ==
    /\ sc_pc = "restored"
    /\ Len(sc_series) > 1
    /\ SeqMin(sc_series) = SeqMax(sc_series)
    /\ sc_raw = SeqMax(sc_series)
    /\ sc_scaled = Rat(0, 1)
    /\ sc_back = Rat(sc_raw, 1)

(* C20: two runs of train-then-forecast on the same series, window_size    *)
(* and seed give the same forecast; nothing random (shuffling of the       *)
(* training data, initial weights) is left outside the seed's control.     *)
C20_RunsAgree ==
    (first.status # "none" /\ second.status # "none") =>
        /\ second.status = first.status
        /\ second.forecast = first.forecast

---------------------------------------------------------------------------
(* Claims about create_sequences and the training split.                   *)

(* max(a, 0).                                                              *)
AtLeastZero(a) == IF a > 0 THEN a ELSE 0

(* C21: for a series of length n and window size W, create_sequences       *)
(* returns exactly max(n - W, 0) pairs; pair i (0-based) is the W values   *)
(* at indices i..i+W-1 with the value at index i+W; no index outside       *)
(* 0..n-1 is read.                                                         *)
C21_PairsOfCreateSequences ==
    LET n == Len(cs_data)
    IN  /\ cs_pc # "error"
        /\ cs_reads \subseteq 0..(n - 1)
        /\ \A k \in DOMAIN cs_pairs :
             /\ Len(cs_pairs[k].X) = cs_W
             /\ \A j \in 1..cs_W : cs_pairs[k].X[j] = cs_data[(k - 1) + j]
             /\ cs_pairs[k].y = cs_data[(k - 1) + cs_W + 1]
        /\ cs_pc \in {"built", "split"} =>
             /\ Len(cs_pairs) = AtLeastZero(n - cs_W)
             /\ [k \in DOMAIN cs_pairs |->
                    [X |-> cs_pairs[k].X, y |-> cs_pairs[k].y]]
                  = create_sequences(cs_data, cs_W)

(* create_sequences has returned the pairs of a series that is longer than *)
(* the window by more than one value.                                      *)
C21_Witness ==
    /\ cs_pc = "built"
    /\ Len(cs_data) = MaxLen
    /\ cs_W = MaxWindow
    /\ Len(cs_pairs) = MaxLen - MaxWindow
    /\ Len(cs_pairs) > 1

(* The indices of the targets of a sequence of pairs.                      *)
Targets(pairs) == {pairs[k].target : k \in DOMAIN pairs}

(* C22: train_model splits the n pairs chronologically: the training       *)
(* segment is the first floor(0.85 * n) pairs, the validation segment the  *)
(* remaining ones; the two are disjoint, together cover all pairs, and     *)
(* every training target index precedes every validation target index.     *)
C22_ChronologicalSplit ==
    cs_pc = "split" =>
        LET n == Len(cs_pairs)
            k == Len(cs_train)
        IN  /\ 100 * k <= 85 * n
            /\ 85 * n < 100 * (k + 1)
            /\ \A j \in 1..k : cs_train[j] = cs_pairs[j]
            /\ Len(cs_val) = n - k
            /\ \A j \in 1..(n - k) : cs_val[j] = cs_pairs[k + j]
            /\ cs_train \o cs_val = cs_pairs
            /\ Targets(cs_train) \cap Targets(cs_val) = {}
            /\ \A a \in Targets(cs_train), b \in Targets(cs_val) : a < b

(* A split with pairs on both sides.                                       *)
C22_Witness ==
    /\ cs_pc = "split"
    /\ Len(cs_train) >= 2
    /\ Len(cs_val) >= 1

(* C30: for every series longer than window_size, the 85/15 split of       *)
(* train_model gives a non-empty training segment and a non-empty          *)
(* validation segment.                                                     *)
C30_SplitSegmentsNonEmpty ==
    (cs_pc = "split" /\ Len(cs_data) > cs_W) =>
        /\ Len(cs_train) > 0
        /\ Len(cs_val) > 0

---------------------------------------------------------------------------
(* Claims about explain_prediction.                                        *)

(* C23: the contributions explain_prediction ranks are those of the        *)
(* predicted class: the class index it selects with denotes, in the        *)
(* model's own class order, the category risk_category.                    *)
C23_ExplainsPredictedClass ==
    expl.status = "ok" => expl.explained_class = expl.risk_category

(* The contribution of the feature a factor is about.                      *)
SignedContribution(f) == expl.contributions[f.feature]

(* C24: explain_prediction returns min(5, number of features) factors in   *)
(* order of non-increasing magnitude; a magnitude is the absolute value of *)
(* the feature's signed contribution, the direction is 'increases' exactly *)
(* when that contribution is above 0 and 'decreases' otherwise; no feature *)
(* left out has a larger magnitude than one returned.                      *)
C24_TopFactors ==
    expl.status = "ok" =>
        LET fs == expl.factors
            nf == Len(expl.contributions)
            returned == {fs[k].feature : k \in DOMAIN fs}
        IN  /\ Len(fs) = IF nf < 5 THEN nf ELSE 5
            /\ Cardinality(returned) = Len(fs)
            /\ returned \subseteq 1..nf
            /\ \A k \in DOMAIN fs :
                 /\ fs[k].magnitude >= 0
                 /\ fs[k].magnitude \in {SignedContribution(fs[k]),
                                         -SignedContribution(fs[k])}
                 /\ fs[k].impact = "increases" <=> SignedContribution(fs[k]) > 0
                 /\ fs[k].impact \in {"increases", "decreases"}
                 /\ k > 1 => fs[k - 1].magnitude >= fs[k].magnitude
            /\ \A i \in (1..nf) \ returned, k \in DOMAIN fs :
                 fs[k].magnitude >= (IF expl.contributions[i] < 0
                                     THEN -expl.contributions[i]
                                     ELSE expl.contributions[i])

(* More than five features, contributions of both signs, and a feature     *)
(* left out.                                                               *)
C24_Witness ==
    /\ expl.status = "ok"
    /\ Len(expl.contributions) > 5
    /\ Len(expl.factors) = 5
    /\ \E k \in DOMAIN expl.factors : expl.factors[k].impact = "increases"
    /\ \E k \in DOMAIN expl.factors : SignedContribution(expl.factors[k]) < 0

---------------------------------------------------------------------------
(* Claims about the feature vector and the frame of a prediction.          *)

(* What a training row holds in the column `col`, for a sample with the    *)
(* readings, exposure and persona of the prediction r.                     *)
TrainingValue(col, r) ==
    LET readings == [k \in FeatureKeySet |->
                        Get(r.given, k, FeatureDefaults[k])]
        row == TrainingRow(readings, r.exposure_duration, r.persona_type)
    IN  row[IndexOf(TrainingFrameColumns, col) + 1]

(* C25: the feature vector predict_risk assembles has the length (12) and  *)
(* the order (aqi, pm25, pm10, temperature, humidity, wind_speed,          *)
(* pressure, visibility, exposure_duration, then the persona indicators    *)
(* children, workers, general) of the columns the scaler and the model     *)
(* were fitted on in train_model.                                          *)
C25_FeatureOrderAsTrained ==
    \A i \in DOMAIN call.produced :
        LET r == call.produced[i]
        IN  /\ Len(r.features) = 12
            /\ Len(TrainFeatureColumns) = 12
            /\ TrainFeatureColumns =
                 FeatureKeys \o <<"exposure_duration", "persona_children",
                                  "persona_workers", "persona_general">>
            /\ \A j \in 1..12 :
                 r.features[j] = TrainingValue(TrainFeatureColumns[j], r)

(* A prediction for an outdoor worker with supplied readings.              *)
C25_Witness ==
    /\ call.status = "ok"
    /\ call.path = "single"
    /\ call.lacking = {}
    /\ Len(call.produced) = 1
    /\ call.produced[1].persona_type = "outdoor_workers"
    /\ call.produced[1].exposure_duration = 24

AqiBreakpoints == <<50, 100, 150, 200, 300>>

RatLeq(a, b) == a.n * b.d <= b.n * a.d

(* The ends of segment k: concentration and AQI.                           *)
SegmentEnds(kind, k) ==
    [c0 |-> IF k = 1 THEN 0 ELSE BranchLimits(kind)[k - 1],
     c1 |-> BranchLimits(kind)[k],
     a0 |-> IF k = 1 THEN 0 ELSE AqiBreakpoints[k - 1],
     a1 |-> AqiBreakpoints[k]]

(* C27: pm25_to_aqi and pm10_to_aqi are piecewise-linear, continuous at    *)
(* every breakpoint and non-decreasing: concentration 0 gives AQI 0, each  *)
(* breakpoint concentration gives exactly 50, 100, 150, 200, 300, from the *)
(* segment below it and from the segment above it alike.                   *)
C27_PiecewiseLinearContinuous ==
    aq_hi # NoReading =>
      /\ aq_hi.c = 0 => aq_hi.aqi = Rat(0, 1)
      /\ \A k \in DOMAIN AqiBreakpoints :
           aq_hi.c = BranchLimits(aq_kind)[k] =>
             /\ aq_hi.aqi = Rat(AqiBreakpoints[k], 1)
             /\ Branch(aq_kind, k, aq_hi.c) = Rat(AqiBreakpoints[k], 1)
             /\ Branch(aq_kind, k + 1, aq_hi.c) = Rat(AqiBreakpoints[k], 1)
      /\ RatLeq(aq_lo.aqi, aq_hi.aqi)
      /\ \A k \in DOMAIN AqiBreakpoints :
           LET e == SegmentEnds(aq_kind, k)
           IN  (e.c0 <= aq_lo.c /\ aq_hi.c <= e.c1) =>
                 (aq_hi.aqi.n * aq_lo.aqi.d - aq_lo.aqi.n * aq_hi.aqi.d)
                     * (e.c1 - e.c0)
                 = (e.a1 - e.a0) * (aq_hi.c - aq_lo.c)
                     * aq_hi.aqi.d * aq_lo.aqi.d

(* PM2.5 at 35.4 after 35.3: the second reading sits on a branch limit and *)
(* shares its segment with the first.                                      *)
C27_Witness ==
    /\ aq_kind = "pm25"
    /\ aq_lo.c = 353
    /\ aq_hi.c = 354
    /\ aq_hi.aqi = Rat(100, 1)

(* C28: whenever a forecast uses a cached model, the window it feeds to    *)
(* the model has the length the model was trained with, whatever           *)
(* window_size values the calls on one location pass.                      *)
C28_CachedWindowAsTrained ==
    (op = "forecast" /\ pc = "loop" /\ cachedAtStart) =>
        /\ model.W = window_size
        /\ Len(last_seq) = model.W

(* C29: HealthRiskModel.load_model is all-or-nothing: when one of the      *)
(* three artifacts cannot be read the call fails and the instance stays    *)
(* untrained, so that a later prediction loads again and never runs with a *)
(* model but no encoder or no scaler.                                      *)
C29_LoadAllOrNothing ==
    hrm.model # 0 => (hrm.label_encoder # <<>> /\ hrm.scaler)

====
